---- MODULE Spec2Model ----
(***************************************************************************)
(* A model of the hedging decision engine: the order-book walk of the      *)
(* execution engine, the venue router of the hedging engine and the        *)
(* backtest simulator.                                                     *)
(*                                                                         *)
(* Numbers.  The program computes in floating point; the model computes    *)
(* exactly.  Quantities and prices are integers (lots and ticks), a rate   *)
(* such as 0.0005 is a fraction of integers, and a quotient the program    *)
(* forms with "/" is the pair [num, den] (den > 0) compared by             *)
(* cross-multiplication, so that no rounding is introduced.                *)
(***************************************************************************)
EXTENDS Integers, Sequences, FiniteSets, TLC

\* ------------------------------------------------------------------ bounds
MaxLevels == 2      \* levels of one ladder of an order book
MaxPrice  == 2      \* prices of a level are 1..MaxPrice
MaxQty    == 2      \* quantities of a level are 0..MaxQty
MaxSize   == 3      \* requested sizes are 0..MaxSize (signed: -MaxSize..MaxSize)
MaxDepth  == 2      \* depth arguments given explicitly are 0..MaxDepth
MaxSteps  == 3      \* rows of a backtest's price series
MaxClose  == 2      \* close prices are 1..MaxClose
MaxHedge  == 1      \* hedge sizes a callback returns are -MaxHedge..MaxHedge
MaxRuns   == 3      \* backtests run one after another on one engine
MaxMark   == 2      \* entry, current and market prices of a position are 1..MaxMark
MaxLots   == 2      \* sizes of a position are 1..MaxLots
MaxStrike == 3      \* strikes and spot prices of an option chain are 1..MaxStrike
MaxPremium == 2     \* prices (asks) of a quoted option are 1..MaxPremium
MaxDelta  == 2      \* delta exposures of an asset are -MaxDelta..MaxDelta
MaxParam  == 1      \* S, K, T and sigma of an option are -MaxParam..MaxParam
MaxPositions == 3   \* positions of a list given to the Greek aggregation
MaxUpdates == 3     \* updates (commands, buttons, texts) the bot receives
MaxAlerts == 1      \* risk alerts kept per chat

\* ------------------------------------------------------- program constants
DefaultDepth == 5   \* estimate_slippage(..., depth: int = 5)
FeeRateDen   == 2000 \* fee_rate = 0.0005 = 1 / FeeRateDen
ImpactNum    == 2    \* the linear impact 0.001 = ImpactNum / FeeRateDen
MoneyScale   == 10000 \* the backtest's money is counted in 1 / MoneyScale
BtFeeNum     == 5    \* fee 0.0005 = BtFeeNum / MoneyScale of the notional
BtSlipNum    == 2    \* slippage 0.0002 = BtSlipNum / MoneyScale of the notional
DefaultWindowDays == 7  \* select_option(..., days_to_expiry=7)
HedgeWindowDays == 14   \* the hedges call select_option with days_to_expiry=14
RetryLimit == 3         \* for _ in range(3)
SignificandBits == 2    \* significant bits a float of the model keeps (a Python float: 53)
RetryDelay == 1         \* await asyncio.sleep(1)

\* ----------------------------------------------------------------- helpers
Abs(x) == IF x < 0 THEN -x ELSE x
Min(a, b) == IF a <= b THEN a ELSE b
Max(a, b) == IF a >= b THEN a ELSE b

\* a / b of the program, b # 0
Rat(n, d) == IF d < 0 THEN [num |-> -n, den |-> -d] ELSE [num |-> n, den |-> d]
RatEq(a, b) == IF a.den = b.den THEN a.num = b.num ELSE a.num * b.den = b.num * a.den
RatLe(a, b) == IF a.den = b.den THEN a.num <= b.num ELSE a.num * b.den <= b.num * a.den
RatLt(a, b) == IF a.den = b.den THEN a.num < b.num ELSE a.num * b.den < b.num * a.den
RatAbs(a) == [num |-> Abs(a.num), den |-> a.den]
RatSub(a, b) == [num |-> a.num * b.den - b.num * a.den, den |-> a.den * b.den]
RatAdd(a, b) == [num |-> a.num * b.den + b.num * a.den, den |-> a.den * b.den]
RatInt(n) == [num |-> n, den |-> 1]

\* --------------------------------------------------------------- the state
VARIABLES
    call,        \* the entry point being run
    use_mock,    \* ExecutionEngine.use_mock
    size,        \* the signed size given to execute_*_hedge
    side,        \* "buy" or "sell"
    order_book,  \* the order book the walk is given ([kind |-> "None"]: no book)
    order_size,  \* estimate_slippage's order_size
    depth,       \* estimate_slippage's depth
    levels,      \* the ladder selected by the side
    k,           \* position of the walk in levels[:depth]
    filled,      \* accumulated filled quantity
    cost,        \* accumulated cost
    avg_price,   \* cost / order_size as computed on line 121
    slippage,    \* the value estimate_slippage returns
    pc,          \* where the call is
    error,       \* the exception that ended the call, "" if none
    result,      \* what the call returned
    exchange,    \* the venue of the quote
    quote_price, \* quote['price'], the top-of-book price of the quote
    csv_log      \* rows log_hedge_execution appended to the CSV log

VARIABLES
    bt_pc,       \* "idle", or "loop" inside run_backtest
    callbacks,   \* the strategy callbacks the caller may pass
    runs_left,   \* how many more runs the caller makes
    strategy,    \* the strategy callback of the run
    price_data,  \* the 'close' column of the run's price series
    step,        \* the row the loop is at (1-based)
    cash,        \* running cash, in units of 1 / MoneyScale
    position,    \* running position
    max_equity,  \* running maximum equity, in units of 1 / MoneyScale
    pnl_curve,   \* equity points
    hedge_costs, \* cost + slippage of each executed hedge
    exposures,   \* position after each step
    drawdowns,   \* drawdown after each step
    actions,     \* the actions the strategy returned
    files,       \* results_dir: the file written under each strategy name
    history      \* what each finished run was given and what it returned

btVars == <<bt_pc, callbacks, runs_left, strategy, price_data, step, cash,
            position, max_equity, pnl_curve, hedge_costs, exposures, drawdowns,
            actions, files, history>>

execVars == <<call, use_mock, size, side, order_book, order_size, depth, levels,
              k, filled, cost, avg_price, slippage, pc, error, result,
              exchange, quote_price, csv_log>>

\* the calls of the analytics, option-selection and allocation functions
VARIABLES
    args,         \* the arguments of the call, by parameter name
    option_chain, \* the caller's option chain, a list of dicts passed by reference
    now,          \* datetime.utcnow() as the call read it: the time of day
    pos_i,        \* compute_portfolio_pnl: the position the loop is at
    spot_pnl,     \* running sum of the P&L of the 'spot' positions
    hedge_pnl     \* running sum of the P&L of the other positions

fnVars == <<args, option_chain, now, pos_i, spot_pnl, hedge_pnl>>

\* the collaborator calls and the Telegram bot's monitoring sessions
VARIABLES
    attempts,             \* the outcome of each request the call has sent so far
    waited,               \* seconds the call has slept between its requests
    monitoring_tasks,     \* telegram_bot.monitoring_tasks: chat_id -> flag
    user_monitor_context, \* telegram_bot.user_monitor_context: chat_id -> dict
    loops,                \* the monitor_loop tasks created and not yet ended
    alerts,               \* the risk alerts sent to each chat
    updates_left          \* updates the bot has still to receive

svcVars == <<attempts, waited, monitoring_tasks, user_monitor_context, loops,
             alerts, updates_left>>

vars == <<execVars, btVars, fnVars, svcVars>>

\* ------------------------------------------------------------- order books
Sides == {"buy", "sell"}
Level == (1..MaxPrice) \X (0..MaxQty)
RECURSIVE SeqsUpTo(_, _)
SeqsUpTo(S, n) ==
    IF n = 0 THEN {<<>>}
    ELSE LET shorter == SeqsUpTo(S, n - 1)
         IN  shorter \cup {Append(s, x) : s \in {t \in shorter : Len(t) = n - 1}, x \in S}
Ladders == SeqsUpTo(Level, MaxLevels)
\* the ladder of the other side, which the call does not read
OtherLadders == {<<<<1, 1>>>>}
NoBook == [kind |-> "None"]
Book(asks, bids) == [kind |-> "book", asks |-> asks, bids |-> bids]
BookOf(sd, ladder, other) ==
    IF sd = "buy" THEN Book(ladder, other) ELSE Book(other, ladder)
BooksFor(sd) == {BookOf(sd, l, o) : l \in Ladders, o \in OtherLadders}
NoRat == [num |-> 0, den |-> 1]
NoResult == [kind |-> "none"]

\* levels[:depth]
Prefix(s, n) == SubSeq(s, 1, Min(Len(s), n))

\* ------------------------------------------- ExecutionEngine.estimate_slippage
\* a take that is the whole level, whatever remains of the request
TakeWholeLevel(osz, f, qty) == qty
\* take = min(order_size - filled, qty)
Take(osz, f, qty) == Min(osz - f, qty)

\* avg_price = cost / order_size if order_size else 0
AvgPrice(c, osz) == IF osz # 0 THEN Rat(c, osz) ELSE RatInt(0)

\* slippage = abs(avg_price - top_price)
Slippage(avg, top_price) == RatAbs(RatSub(avg, RatInt(top_price)))

\* the walk of lines 113-120 from level i on, as one function
RECURSIVE Walk(_, _, _, _, _)
Walk(lv, osz, i, f, c) ==
    IF i > Len(lv) THEN [filled |-> f, cost |-> c]
    ELSE LET take == Take(osz, f, lv[i][2])
             f2 == f + take
             c2 == c + take * lv[i][1]
         IN  IF f2 >= osz THEN [filled |-> f2, cost |-> c2]
             ELSE Walk(lv, osz, i + 1, f2, c2)

\* the average price estimate_slippage computes for a requested size
AvgPriceFor(osz, ladder, d) == AvgPrice(Walk(Prefix(ladder, d), osz, 1, 0, 0).cost, osz)

\* levels = order_book['asks'] if side == 'buy' else order_book['bids']
SelectLevels ==
    /\ pc = "estimate_slippage"
    /\ IF order_book.kind = "None"
       THEN /\ pc' = "raised"
            /\ error' = "TypeError"
            /\ UNCHANGED levels
       ELSE /\ levels' = IF side = "buy" THEN order_book.asks ELSE order_book.bids
            /\ pc' = "walk"
            /\ UNCHANGED error
    /\ filled' = 0
    /\ cost' = 0
    /\ k' = 1
    /\ UNCHANGED <<call, use_mock, size, side, order_book, order_size, depth,
                   avg_price, slippage, result, exchange, quote_price, csv_log>>
    /\ UNCHANGED <<btVars, fnVars, svcVars>>

\* one iteration of: for price, qty in levels[:depth]
WalkLevel ==
    /\ pc = "walk"
    /\ k <= Len(Prefix(levels, depth))
    /\ LET price == levels[k][1]
           qty == levels[k][2]
           take == Take(order_size, filled, qty)
       IN  /\ cost' = cost + take * price
           /\ filled' = filled + take
           /\ IF filled + take >= order_size
              THEN pc' = "avg" /\ k' = k
              ELSE pc' = "walk" /\ k' = k + 1
    /\ UNCHANGED <<call, use_mock, size, side, order_book, order_size, depth,
                   levels, avg_price, slippage, error, result, exchange, quote_price,
                   csv_log>>
    /\ UNCHANGED <<btVars, fnVars, svcVars>>

\* the loop ends with the levels exhausted
WalkExhausted ==
    /\ pc = "walk"
    /\ k > Len(Prefix(levels, depth))
    /\ pc' = "avg"
    /\ UNCHANGED <<call, use_mock, size, side, order_book, order_size, depth,
                   levels, k, filled, cost, avg_price, slippage, error, result,
                   exchange, quote_price, csv_log>>
    /\ UNCHANGED <<btVars, fnVars, svcVars>>

\* lines 121-124
ComputeSlippage ==
    /\ pc = "avg"
    /\ avg_price' = AvgPrice(cost, order_size)
    /\ IF Len(levels) = 0
       THEN \* top_price = levels[0][0]
            /\ pc' = "raised"
            /\ error' = "IndexError"
            /\ UNCHANGED <<slippage, result>>
       ELSE /\ slippage' = Slippage(avg_price', levels[1][1])
            /\ IF call = "estimate_slippage"
               THEN /\ pc' = "returned"
                    /\ result' = [kind |-> "float", value |-> slippage']
               ELSE /\ pc' = "hedging_cost"
                    /\ UNCHANGED result
            /\ UNCHANGED error
    /\ UNCHANGED <<call, use_mock, size, side, order_book, order_size, depth,
                   levels, k, filled, cost, exchange, quote_price, csv_log>>
    /\ UNCHANGED <<btVars, fnVars, svcVars>>

\* ------------------------------------ ExecutionEngine.execute_*_hedge
Exchanges == {"okx", "bybit", "deribit"}
TopPrice(ob, sd) == IF sd = "buy" THEN ob.asks[1][1] ELSE ob.bids[1][1]
LadderOf(ob, sd) == IF sd = "buy" THEN ob.asks ELSE ob.bids

\* quote = self.get_best_quote(asset, side): the exchanges' order books are
\* fetched from the network; an exchange without a book is skipped, a book
\* whose ladder is empty raises at ob[...][0][0], and else the best book wins.
GetBestQuote ==
    /\ pc = "get_best_quote"
    /\ \/ \* no exchange returned a book
          /\ exchange' = "None"
          /\ quote_price' = 0
          /\ order_book' = NoBook
          /\ pc' = "estimate_slippage"
          /\ UNCHANGED error
       \/ \* a fetched book has no level on the side
          /\ pc' = "raised"
          /\ error' = "IndexError"
          /\ UNCHANGED <<exchange, quote_price, order_book>>
       \/ \E ex \in Exchanges, ob \in BooksFor(side) :
             /\ Len(LadderOf(ob, side)) > 0
             /\ exchange' = ex
             /\ quote_price' = TopPrice(ob, side)
             /\ order_book' = ob
             /\ pc' = "estimate_slippage"
             /\ UNCHANGED error
    /\ order_size' = Abs(size)
    /\ UNCHANGED <<call, use_mock, size, side, depth, levels, k, filled, cost,
                   avg_price, slippage, result, csv_log>>
    /\ UNCHANGED <<btVars, fnVars, svcVars>>

\* ob = deribit_order_book(asset); side = 'buy' if size > 0 else 'sell'
FetchDeribitBook ==
    /\ pc = "deribit_order_book"
    /\ side' = IF size > 0 THEN "buy" ELSE "sell"
    /\ order_book' \in BooksFor(side') \cup {NoBook}
    /\ order_size' = Abs(size)
    /\ exchange' = "deribit"
    /\ pc' = "estimate_slippage"
    /\ UNCHANGED <<call, use_mock, size, depth, levels, k, filled, cost,
                   avg_price, slippage, error, result, quote_price, csv_log>>
    /\ UNCHANGED <<btVars, fnVars, svcVars>>

\* calculate_hedging_cost(entry_price, hedge_size, fee_rate, slippage)
HedgingCost(entry_price, hedge_size, slip) ==
    LET fee == Rat(Abs(hedge_size) * entry_price, FeeRateDen)
        total_cost == RatAdd(fee, [num |-> Abs(hedge_size) * slip.num, den |-> slip.den])
        pct_cost == IF hedge_size # 0
                    THEN Rat(total_cost.num, total_cost.den * Abs(hedge_size) * entry_price)
                    ELSE RatInt(0)
    IN  [total_cost |-> total_cost, pct_cost |-> pct_cost]

\* status = 'mocked' if self.use_mock else 'executed'
StatusOf(mock) == IF mock THEN "mocked" ELSE "executed"

\* the rest of execute_perpetual_hedge / execute_option_hedge: the cost, the
\* result record (without the asset, the option's type and strike, and the
\* timestamp, which are passed through) and log_hedge_execution(result),
\* which appends the row to the CSV log and then raises KeyError at
\* details['strategy'], a key the record does not have
BuildResult ==
    /\ pc = "hedging_cost"
    /\ LET p == IF call = "execute_option_hedge" THEN TopPrice(order_book, side) ELSE quote_price
           hc == HedgingCost(p, size, slippage)
           perp == [status |-> StatusOf(use_mock), exchange |-> exchange,
                    size |-> size, side |-> side, price |-> p,
                    cost |-> hc.total_cost, slippage |-> slippage,
                    pct_cost |-> hc.pct_cost,
                    trade_id |-> IF use_mock THEN "MOCK" ELSE "REAL"]
           opt == [status |-> StatusOf(use_mock), exchange |-> "deribit",
                   size |-> size, price |-> p,
                   cost |-> hc.total_cost, slippage |-> slippage,
                   pct_cost |-> hc.pct_cost,
                   trade_id |-> IF use_mock THEN "MOCKOPT" ELSE "REALOPT"]
           rec == IF call = "execute_option_hedge" THEN opt ELSE perp
       IN  /\ quote_price' = p
           /\ csv_log' = Append(csv_log, rec)
    /\ pc' = "raised"
    /\ error' = "KeyError"
    /\ UNCHANGED <<call, use_mock, size, side, order_book, order_size, depth,
                   levels, k, filled, cost, avg_price, slippage, result, exchange>>
    /\ UNCHANGED <<btVars, fnVars, svcVars>>

\* the locals of a call that has not started
WalkNotStarted ==
    /\ levels = <<>>
    /\ k = 1
    /\ filled = 0
    /\ cost = 0
    /\ avg_price = NoRat
    /\ slippage = NoRat
    /\ error = ""
    /\ result = NoResult
    /\ exchange = "None"
    /\ quote_price = 0
    /\ csv_log = <<>>

\* no call of an analytics, option-selection or allocation function is made
FnIdle ==
    /\ args = <<>>
    /\ option_chain = <<>>
    /\ now = 0
    /\ pos_i = 1
    /\ spot_pnl = 0
    /\ hedge_pnl = 0

\* no collaborator is called and the bot has received no update
SvcIdle ==
    /\ attempts = <<>>
    /\ waited = 0
    /\ monitoring_tasks = <<>>
    /\ user_monitor_context = <<>>
    /\ loops = <<>>
    /\ alerts = <<>>
    /\ updates_left = 0

\* no collaborator call is in progress
NoNetworkCall ==
    /\ attempts = <<>>
    /\ waited = 0

\* no backtest is made
BacktestIdle ==
    /\ bt_pc = "idle"
    /\ callbacks = {}
    /\ runs_left = 0
    /\ strategy = "None"
    /\ price_data = <<>>
    /\ step = 1
    /\ cash = 0
    /\ position = 0
    /\ max_equity = 0
    /\ pnl_curve = <<>>
    /\ hedge_costs = <<>>
    /\ exposures = <<>>
    /\ drawdowns = <<>>
    /\ actions = <<>>
    /\ files = {}
    /\ history = <<>>

\* a call of estimate_slippage, execute_perpetual_hedge or execute_option_hedge
InitExec ==
    /\ call \in {"estimate_slippage", "execute_perpetual_hedge", "execute_option_hedge"}
    /\ side \in Sides \cup {""}
    /\ size \in -MaxSize..MaxSize
    /\ use_mock \in BOOLEAN
    /\ order_size \in 0..MaxSize
    /\ depth \in (0..MaxDepth) \cup {DefaultDepth}
    /\ CASE call = "estimate_slippage" ->
              /\ side \in Sides
              /\ order_book \in BooksFor(side) \cup {NoBook}
              /\ size = 0 /\ use_mock = FALSE /\ depth # DefaultDepth
              /\ pc = "estimate_slippage"
         [] call = "execute_perpetual_hedge" ->
              /\ side \in Sides
              /\ order_book = NoBook
              /\ order_size = 0 /\ depth = DefaultDepth
              /\ pc = "get_best_quote"
         [] call = "execute_option_hedge" ->
              /\ side = ""
              /\ order_book = NoBook
              /\ order_size = 0 /\ depth = DefaultDepth
              /\ pc = "deribit_order_book"
    /\ WalkNotStarted
    /\ BacktestIdle
    /\ FnIdle
    /\ SvcIdle

NextExec ==
    \/ GetBestQuote
    \/ FetchDeribitBook
    \/ SelectLevels
    \/ WalkLevel
    \/ WalkExhausted
    \/ ComputeSlippage
    \/ BuildResult

SpecExec == InitExec /\ [][NextExec]_vars

\* ------------------------------------------------------------ HedgingEngine
Venues == <<"OKX", "Bybit", "Deribit">>

\* the mock order books of route_order
MockBook(v) ==
    CASE v = "OKX"     -> Book(<<<<57100, 10>>>>, <<<<57000, 10>>>>)
      [] v = "Bybit"   -> Book(<<<<57110, 10>>>>, <<<<56990, 10>>>>)
      [] v = "Deribit" -> Book(<<<<57120, 10>>>>, <<<<57010, 10>>>>)

RECURSIVE SumQty(_, _)
SumQty(lv, i) == IF i > Len(lv) THEN 0 ELSE lv[i][2] + SumQty(lv, i + 1)

\* HedgingEngine.estimate_execution_cost(symbol, side, size, exchange, order_book)
EstimateExecutionCost(sd, sz, ob) ==
    IF ob.kind = "None"
    THEN [kind |-> "float", value |-> RatInt(0)]
    ELSE IF Len(LadderOf(ob, sd)) = 0
    THEN [kind |-> "raised", error |-> "IndexError"]
    ELSE LET top == TopPrice(ob, sd)
             book_depth == SumQty(LadderOf(ob, sd), 1)
             impact == IF book_depth > 0 THEN ImpactNum * Abs(sz) ELSE 0
         IN  [kind |-> "float",
              value |-> Rat(Abs(sz) * top * (FeeRateDen + 1) + impact * top, FeeRateDen)]

\* sorted(costs.items(), key=lambda x: x[1]): a stable sort by cost
InsertByCost(sorted, item) ==
    LET after == {i \in 1..Len(sorted) : RatLt(item[2], sorted[i][2])}
        at == IF after = {} THEN Len(sorted) + 1
              ELSE CHOOSE i \in after : \A j \in after : i <= j
    IN  SubSeq(sorted, 1, at - 1) \o <<item>> \o SubSeq(sorted, at, Len(sorted))
RECURSIVE SortFrom(_, _, _)
SortFrom(items, i, acc) ==
    IF i > Len(items) THEN acc ELSE SortFrom(items, i + 1, InsertByCost(acc, items[i]))
\* the items left in the insertion order of the dict
DictOrder(items) == items
SortedByCost(items) == SortFrom(items, 1, <<>>)

\* the costs dict of route_order, in insertion order
VenueCosts(sd, sz) ==
    [i \in 1..Len(Venues) |->
        <<Venues[i], EstimateExecutionCost(sd, sz, MockBook(Venues[i])).value>>]

\* a call of estimate_execution_cost
EstimateCostCall ==
    /\ pc = "estimate_execution_cost"
    /\ LET r == EstimateExecutionCost(side, size, order_book)
       IN  IF r.kind = "raised"
           THEN pc' = "raised" /\ error' = r.error /\ UNCHANGED result
           ELSE pc' = "returned" /\ result' = r /\ UNCHANGED error
    /\ UNCHANGED <<call, use_mock, size, side, order_book, order_size, depth,
                   levels, k, filled, cost, avg_price, slippage, exchange,
                   quote_price, csv_log>>
    /\ UNCHANGED <<btVars, fnVars, svcVars>>

\* a call of route_order
RouteOrder ==
    /\ pc = "route_order"
    /\ LET sorted_ex == SortedByCost(VenueCosts(side, size))
       IN  result' = [kind |-> "venues", best |-> sorted_ex[1][1],
                      fallback |-> sorted_ex[2][1]]
    /\ pc' = "returned"
    /\ UNCHANGED <<call, use_mock, size, side, order_book, order_size, depth,
                   levels, k, filled, cost, avg_price, slippage, error, exchange,
                   quote_price, csv_log>>
    /\ UNCHANGED <<btVars, fnVars, svcVars>>

InitRoute ==
    /\ call \in {"estimate_execution_cost", "route_order"}
    /\ pc = call
    /\ side \in Sides
    /\ size \in -MaxSize..MaxSize
    /\ order_book \in BooksFor(side) \cup {NoBook}
    /\ call = "route_order" => order_book = NoBook
    /\ use_mock = FALSE
    /\ order_size = 0
    /\ depth = DefaultDepth
    /\ WalkNotStarted
    /\ BacktestIdle
    /\ FnIdle
    /\ SvcIdle

NextRoute ==
    \/ EstimateCostCall
    \/ RouteOrder

SpecRoute == InitRoute /\ [][NextRoute]_vars

\* ----------------------------------------------- BacktestEngine.run_backtest
\* The strategy callbacks.  delta_neutral_strategy and no_hedge_strategy are
\* the program's; hold_one_strategy and sell_high_strategy stand for other
\* deterministic callbacks a caller passes, and any_strategy for a callback
\* about which nothing is known.
DeterministicStrategies ==
    {"delta_neutral_strategy", "no_hedge_strategy", "hold_one_strategy",
     "sell_high_strategy"}
Strategies == DeterministicStrategies \cup {"any_strategy"}
\* what a callback may return: a hedge of any size, or no hedge, with the
\* size field left at 0 or set all the same
HedgeActions ==
    [hedge : {TRUE}, hedge_size : -MaxHedge..MaxHedge]
        \cup [hedge : {FALSE}, hedge_size : {0, MaxHedge}]

\* a callback that hedges to a delta of one unit whatever target it is given
HedgeToUnit(target_delta, current_position) ==
    [hedge |-> Abs(1 - current_position) > 0, hedge_size |-> 1 - current_position]
\* hedge_size = target_delta - current_position; hedge when abs(hedge_size) > 1e-4
HedgeTo(target_delta, current_position) ==
    [hedge |-> Abs(target_delta - current_position) > 0,
     hedge_size |-> target_delta - current_position]

\* action = strategy(step_data, positions, position): what the callback may return
StrategyActions(strat, close, current_position) ==
    CASE strat = "delta_neutral_strategy" -> {HedgeTo(0, current_position)}
      [] strat = "no_hedge_strategy" -> {[hedge |-> FALSE, hedge_size |-> 0]}
      [] strat = "hold_one_strategy" -> {HedgeTo(1, current_position)}
      [] strat = "sell_high_strategy" ->
            {[hedge |-> close > 1, hedge_size |-> IF close > 1 THEN -1 ELSE 0]}
      [] strat = "any_strategy" -> HedgeActions

PriceSeries == SeqsUpTo(1..MaxClose, MaxSteps)

\* a charge of the fee without the slippage
FeeOnly(hedge_size, close) == Abs(hedge_size) * close * BtFeeNum
\* cost = abs(hedge_size) * price * 0.0005; slippage = abs(hedge_size) * price * 0.0002
HedgeCharge(hedge_size, close) ==
    Abs(hedge_size) * close * BtFeeNum + Abs(hedge_size) * close * BtSlipNum

\* a mark-to-market against 0 instead of the first close
MtmUnbased(pos, close, first_close) == pos * close * MoneyScale
\* mtm = position * (price - price_data.iloc[0]['close'])
Mtm(pos, close, first_close) == pos * (close - first_close) * MoneyScale

\* a maximum that follows the last equity
LastEquity(prev_max, equity) == equity
\* a maximum that is never raised
StaleMax(prev_max, equity) == prev_max
\* max_equity = max(max_equity, equity)
RunningMax(prev_max, equity) == Max(prev_max, equity)

\* a run that starts from the position the previous run ended with
KeptPosition(previous) == previous
\* position = 0 at the start of a run
StartPosition(previous) == 0

\* returns = pd.Series(pnl_curve).diff().dropna()
Diffs(curve) == [j \in 1..(Len(curve) - 1) |-> curve[j + 1] - curve[j]]
MinAt(seq, idx) == CHOOSE i \in idx : \A j \in idx : seq[i] <= seq[j]

\* var_95 = np.percentile(returns, 5): linear interpolation between the two
\* smallest returns at the fractional rank 0.05 * (n - 1) (n <= 21), and nan
\* for no return at all
Percentile5(returns) ==
    LET n == Len(returns)
        i0 == MinAt(returns, 1..n)
        i1 == MinAt(returns, (1..n) \ {i0})
    IN  IF n = 0 THEN [nan |-> TRUE, num |-> 0, den |-> 1]
        ELSE IF n = 1 THEN [nan |-> FALSE, num |-> returns[1], den |-> 1]
        ELSE [nan |-> FALSE,
              num |-> 20 * returns[i0] + (n - 1) * (returns[i1] - returns[i0]),
              den |-> 20]

\* the file a strategy's results are written to: f"{strategy_name}.json"
WriteFile(fs, name, content) ==
    {f \in fs : f.name # name} \cup {[name |-> name, content |-> content]}

\* run_backtest(strategy, positions, price_data, strategy_name): lines 37-45
BeginRun ==
    /\ bt_pc = "idle"
    /\ runs_left > 0
    /\ strategy' \in callbacks
    /\ pnl_curve' = <<>>
    /\ hedge_costs' = <<>>
    /\ exposures' = <<>>
    /\ drawdowns' = <<>>
    /\ actions' = <<>>
    /\ cash' = 0
    /\ position' = StartPosition(position)
    /\ max_equity' = 0
    /\ step' = 1
    /\ bt_pc' = "loop"
    /\ UNCHANGED <<callbacks, runs_left, price_data, files, history>>
    /\ UNCHANGED <<execVars, fnVars, svcVars>>

\* one iteration of: for i, row in price_data.iterrows()
BacktestStep ==
    /\ bt_pc = "loop"
    /\ step <= Len(price_data)
    /\ \E action \in StrategyActions(strategy, price_data[step], position) :
          LET close == price_data[step]
              hedge_size == action.hedge_size
              charge == HedgeCharge(hedge_size, close)
              cash2 == IF action.hedge THEN cash - charge ELSE cash
              position2 == IF action.hedge THEN position + hedge_size ELSE position
              equity == cash2 + Mtm(position2, close, price_data[1])
              max_equity2 == RunningMax(max_equity, equity)
          IN  /\ actions' = Append(actions, action)
              /\ cash' = cash2
              /\ hedge_costs' = IF action.hedge THEN Append(hedge_costs, charge)
                                ELSE hedge_costs
              /\ position' = position2
              /\ pnl_curve' = Append(pnl_curve, equity)
              /\ exposures' = Append(exposures, position2)
              /\ max_equity' = max_equity2
              /\ drawdowns' = Append(drawdowns, max_equity2 - equity)
    /\ step' = step + 1
    /\ UNCHANGED <<bt_pc, callbacks, runs_left, strategy, price_data, files, history>>
    /\ UNCHANGED <<execVars, fnVars, svcVars>>

\* the result dict of lines 69-80
BacktestResult ==
    [pnl_curve |-> pnl_curve,
     hedge_costs |-> hedge_costs,
     exposures |-> exposures,
     drawdowns |-> drawdowns,
     VaR_95 |-> Percentile5(Diffs(pnl_curve)),
     final_pnl |-> IF Len(pnl_curve) > 0 THEN pnl_curve[Len(pnl_curve)] ELSE 0,
     actions |-> actions]

\* after the loop: the VaR, the result, the results file, and the return
FinishRun ==
    /\ bt_pc = "loop"
    /\ step > Len(price_data)
    /\ files' = WriteFile(files, strategy, BacktestResult)
    /\ history' = Append(history,
           [strategy |-> strategy, price_data |-> price_data, result |-> BacktestResult])
    /\ runs_left' = runs_left - 1
    /\ bt_pc' = "idle"
    /\ UNCHANGED <<callbacks, strategy, price_data, step, cash, position,
                   max_equity, pnl_curve, hedge_costs, exposures, drawdowns, actions>>
    /\ UNCHANGED <<execVars, fnVars, svcVars>>

\* no call of the execution or hedging engine is made
ExecIdle ==
    /\ call = "None"
    /\ pc = "None"
    /\ use_mock = FALSE
    /\ size = 0
    /\ side = ""
    /\ order_book = NoBook
    /\ order_size = 0
    /\ depth = DefaultDepth
    /\ WalkNotStarted

\* a new engine and the price data the caller loaded: no run yet, an empty
\* results directory
NewEngine ==
    /\ bt_pc = "idle"
    /\ strategy = "None"
    /\ price_data \in PriceSeries
    /\ step = 1
    /\ cash = 0
    /\ position = 0
    /\ max_equity = 0
    /\ pnl_curve = <<>>
    /\ hedge_costs = <<>>
    /\ exposures = <<>>
    /\ drawdowns = <<>>
    /\ actions = <<>>
    /\ files = {}
    /\ history = <<>>

\* one backtest, with any strategy callback
InitBacktest ==
    /\ ExecIdle
    /\ NewEngine
    /\ FnIdle
    /\ SvcIdle
    /\ callbacks = Strategies
    /\ runs_left = 1

\* backtests of deterministic callbacks on the same price data, one after
\* another on one engine
InitRuns ==
    /\ ExecIdle
    /\ NewEngine
    /\ FnIdle
    /\ SvcIdle
    /\ callbacks = DeterministicStrategies
    /\ runs_left = MaxRuns

NextBacktest ==
    \/ BeginRun
    \/ BacktestStep
    \/ FinishRun

SpecBacktest == InitBacktest /\ [][NextBacktest]_vars
SpecRuns == InitRuns /\ [][NextBacktest]_vars

\* ----------------------------------------------- claims on the order-book walk
\* the call has computed avg_price and the slippage
Estimated == pc \in {"returned", "hedging_cost"}

\* the ladder is a price-ascending ask ladder / price-descending bid ladder
PriceOrdered(lv, sd) ==
    \A i, j \in 1..Len(lv) :
        i < j => IF sd = "buy" THEN lv[i][1] <= lv[j][1] ELSE lv[i][1] >= lv[j][1]

\* C1: at every point of the walk of estimate_slippage and at its end, the
\* accumulated filled quantity is at most the requested size.
C1_FilledAtMostRequested == filled <= order_size

\* C1 witness: the walk ended on a second level that held more than the
\* remainder of the request, so the minimum was taken against the remainder.
C1_Witness ==
    /\ pc = "returned"
    /\ k = 2
    /\ filled = order_size
    /\ levels[1][2] > 0
    /\ levels[2][2] > order_size - levels[1][2]

\* C2: the average fill price equals accumulated cost / filled quantity, for
\* every requested size > 0, also when the walked levels hold less than the
\* requested size.
C2_AvgIsCostOverFilled ==
    (Estimated /\ order_size > 0 /\ filled > 0) => RatEq(avg_price, Rat(cost, filled))

\* C3: on a price-ordered ladder and for a fixed depth, the average fill price
\* of a buy does not decrease, and that of a sell does not increase, when the
\* requested size grows (all sizes > 0).
C3_AvgMonotoneInSize ==
    (Estimated /\ order_size > 0 /\ PriceOrdered(levels, side)) =>
        \A smaller \in 1..order_size :
            IF side = "buy"
            THEN RatLe(AvgPriceFor(smaller, levels, depth), avg_price)
            ELSE RatLe(avg_price, AvgPriceFor(smaller, levels, depth))

\* C4: when the walked levels held less than the requested size, the record
\* the hedge execution produces reports the fill as partial.
C4_ShortfallReported ==
    \A i \in 1..Len(csv_log) :
        filled < order_size => csv_log[i].status = "partial"

\* ------------------------------------------------- claims on the estimators
\* the side's ladder of the call's order book has at least one level
HasLiquidity == order_book.kind = "book" /\ Len(LadderOf(order_book, side)) > 0

\* C5: without an order book, or with no level on the requested side, the
\* estimators estimate_slippage and estimate_execution_cost fail with an
\* error; they return an estimate only when the side has liquidity.
C5_NoEstimateWithoutLiquidity ==
    (pc = "returned" /\ call \in {"estimate_slippage", "estimate_execution_cost"})
        => HasLiquidity

\* the cost estimate_execution_cost gives a venue for the call's side and size
VenueCost(v) == EstimateExecutionCost(side, size, MockBook(v)).value
VenueSet == {Venues[i] : i \in 1..Len(Venues)}

\* C6: route_order returns two distinct venues, best and fallback, with
\* cost(best) <= cost(fallback) <= cost of every other venue.
C6_TwoCheapestVenues ==
    (pc = "returned" /\ call = "route_order") =>
        /\ result.best \in VenueSet
        /\ result.fallback \in VenueSet
        /\ result.best # result.fallback
        /\ RatLe(VenueCost(result.best), VenueCost(result.fallback))
        /\ \A v \in VenueSet \ {result.best, result.fallback} :
               RatLe(VenueCost(result.fallback), VenueCost(v))

\* C6 witness: a sell was routed, for which the cheapest venue is not the
\* first of the costs dict.
C6_Witness ==
    /\ pc = "returned"
    /\ call = "route_order"
    /\ side = "sell"
    /\ size # 0
    /\ result.best = "Bybit"
    /\ result.fallback = "OKX"

\* ------------------------------------------------------ analytics.pnl_tracker
\* the engine's variables a call of another module leaves alone
engineLocals == <<call, use_mock, size, side, order_book, order_size, depth,
                  levels, k, filled, cost, avg_price, slippage, exchange,
                  quote_price, csv_log>>

\* no engine is used: only call, pc, error and result follow the call
NoEngine ==
    /\ use_mock = FALSE
    /\ size = 0
    /\ side = ""
    /\ order_book = NoBook
    /\ order_size = 0
    /\ depth = DefaultDepth
    /\ WalkNotStarted

\* the symbol a position of each type is held in
SymbolOf(typ) ==
    CASE typ = "spot" -> "BTC"
      [] typ = "perp" -> "BTC-PERP"
      [] typ = "option" -> "BTC-PUT"

\* a position dict; current_price is <<>> when the key is absent, and
\* "flat" stands for a direction that is neither 'long' nor 'short'
Positions ==
    {[symbol |-> SymbolOf(t), type |-> t, entry_price |-> e, current_price |-> c,
      size |-> z, direction |-> d] :
        t \in {"spot", "perp", "option"}, e \in 1..MaxMark,
        c \in {<<>>} \cup {<<q>> : q \in 1..MaxMark},
        z \in 1..MaxLots, d \in {"long", "short", "flat"}}

\* the lists of no, one or two elements of S
UpToTwo(S) == {<<>>} \cup {<<a>> : a \in S} \cup {<<a, b>> : a \in S, b \in S}

\* market_prices: no symbol quoted, or every symbol quoted at one price
MarketPrices ==
    {[y \in {} |-> 0]} \cup
    {[y \in {"BTC", "BTC-PERP", "BTC-PUT"} |-> q] : q \in 1..MaxMark}

\* calculate_position_pnl; the ValueError is [raised |-> TRUE]
calculate_position_pnl(entry_price, current_price, sz, direction) ==
    IF direction = "long"
    THEN [raised |-> FALSE, value |-> (current_price - entry_price) * sz]
    ELSE IF direction = "short"
    THEN [raised |-> FALSE, value |-> (entry_price - current_price) * sz]
    ELSE [raised |-> TRUE, value |-> 0]

\* the share of the spot leg in the total instead of the hedge leg's
spot_share(spot, hedge) ==
    IF spot + hedge = 0 THEN RatInt(0) ELSE Rat(spot * 100, spot + hedge)

\* calculate_hedge_effectiveness(spot_pnl, hedge_pnl)
calculate_hedge_effectiveness(spot, hedge) ==
    IF spot + hedge = 0 THEN RatInt(0) ELSE Rat(hedge * 100, spot + hedge)

\* curr = pos.get('current_price', market_prices.get(symbol, entry))
CurrentPrice(pos, market_prices) ==
    IF pos.current_price # <<>> THEN pos.current_price[1]
    ELSE IF pos.symbol \in DOMAIN market_prices THEN market_prices[pos.symbol]
    ELSE pos.entry_price

\* a direct call of calculate_hedge_effectiveness
HedgeEffectivenessCall ==
    /\ pc = "calculate_hedge_effectiveness"
    /\ result' = [kind |-> "float",
                  value |-> calculate_hedge_effectiveness(args.spot_pnl, args.hedge_pnl)]
    /\ pc' = "returned"
    /\ UNCHANGED <<error, engineLocals, btVars, fnVars, svcVars>>

\* one iteration of: for pos in portfolio (lines 26-37)
PositionPnl ==
    /\ pc = "compute_portfolio_pnl"
    /\ pos_i <= Len(args.portfolio)
    /\ LET pos == args.portfolio[pos_i]
           pnl == calculate_position_pnl(pos.entry_price,
                      CurrentPrice(pos, args.market_prices), pos.size, pos.direction)
       IN  IF pnl.raised
           THEN /\ pc' = "raised"
                /\ error' = "ValueError"
                /\ UNCHANGED <<pos_i, spot_pnl, hedge_pnl>>
           ELSE /\ spot_pnl' = IF pos.type = "spot" THEN spot_pnl + pnl.value ELSE spot_pnl
                /\ hedge_pnl' = IF pos.type = "spot" THEN hedge_pnl ELSE hedge_pnl + pnl.value
                /\ pos_i' = pos_i + 1
                /\ UNCHANGED <<pc, error>>
    /\ UNCHANGED <<result, args, option_chain, now, engineLocals, btVars, svcVars>>

\* after the loop: lines 38-45
PortfolioPnlReturn ==
    /\ pc = "compute_portfolio_pnl"
    /\ pos_i > Len(args.portfolio)
    /\ result' = [kind |-> "dict",
                  total_pnl |-> spot_pnl + hedge_pnl,
                  spot_pnl |-> spot_pnl,
                  hedge_pnl |-> hedge_pnl,
                  hedge_effectiveness |-> calculate_hedge_effectiveness(spot_pnl, hedge_pnl)]
    /\ pc' = "returned"
    /\ UNCHANGED <<error, engineLocals, btVars, fnVars, svcVars>>

\* a call of compute_portfolio_pnl or of calculate_hedge_effectiveness
InitPnl ==
    /\ call \in {"compute_portfolio_pnl", "calculate_hedge_effectiveness"}
    /\ pc = call
    /\ IF call = "compute_portfolio_pnl"
       THEN args \in [portfolio : UpToTwo(Positions), market_prices : MarketPrices]
       ELSE args \in [spot_pnl : -(MaxMark * MaxLots)..(MaxMark * MaxLots),
                      hedge_pnl : -(MaxMark * MaxLots)..(MaxMark * MaxLots)]
    /\ option_chain = <<>>
    /\ now = 0
    /\ pos_i = 1
    /\ spot_pnl = 0
    /\ hedge_pnl = 0
    /\ NoEngine
    /\ BacktestIdle
    /\ SvcIdle

NextPnl ==
    \/ HedgeEffectivenessCall
    \/ PositionPnl
    \/ PortfolioPnlReturn

SpecPnl == InitPnl /\ [][NextPnl]_vars


\* --------------------------------------- strategy_engine.options_strategies
\* Time is counted in parts of a day: an expiry date "%Y-%m-%d" parses to
\* midnight, PartsPerDay * (its day number), and utcnow() is the midnight of
\* day 0 plus the time of day `now`.
PartsPerDay == 2
TimesOfDay == 0..(PartsPerDay - 1)
\* the expiry dates of a chain, in days from today's date
ExpiryOffsets == {-HedgeWindowDays, 0, HedgeWindowDays + 1}
\* the deltas of a chain, in the unit the exposure is given in
OptionDeltas == {-2, 0, 1}
\* the exposures to hedge (portfolio_delta, holdings)
HedgeExposures == {-1, 2}

\* an option dict of the chain; spot is <<>> while the key is absent
Options ==
    [type : {"put", "call"}, strike : 1..MaxStrike, expiry : ExpiryOffsets,
     delta : OptionDeltas, spot : {<<>>}]

\* x.get('spot', 0)
SpotOf(o) == IF o.spot = <<>> THEN 0 ELSE o.spot[1]
\* (datetime.strptime(o['expiry'], "%Y-%m-%d") - now).days: the whole days of
\* the difference, rounded towards minus infinity
timedelta_days(expiry, time_of_day) == (expiry * PartsPerDay - time_of_day) \div PartsPerDay
\* a window that lets every expiry through
AnyExpiry(o, time_of_day, days_to_expiry) == TRUE
\* abs((expiry - now).days) <= days_to_expiry
InWindow(o, time_of_day, days_to_expiry) ==
    Abs(timedelta_days(o.expiry, time_of_day)) <= days_to_expiry
\* the moneyness filter of lines 15-26 ('ATM' only sorts, any other word
\* filters nothing)
InBucket(o, type, moneyness) ==
    CASE moneyness = "OTM" ->
            IF type = "put" THEN o.strike < SpotOf(o) ELSE o.strike > SpotOf(o)
      [] moneyness = "ITM" ->
            IF type = "put" THEN o.strike > SpotOf(o) ELSE o.strike < SpotOf(o)
      [] OTHER -> TRUE
\* min(filtered, key=lambda x: abs(x['strike'] - x.get('spot', 0))): the first
\* of the options at the least distance (the stable sort of the 'ATM' branch
\* does not change which one that is)
NearestToSpot(filtered) ==
    LET dist(i) == Abs(filtered[i].strike - SpotOf(filtered[i]))
        best == CHOOSE i \in 1..Len(filtered) :
                    /\ \A j \in 1..Len(filtered) : dist(i) <= dist(j)
                    /\ \A j \in 1..(i - 1) : dist(j) > dist(i)
    IN  filtered[best]

NoOption == [kind |-> "None"]
\* select_option(option_chain, type, moneyness, days_to_expiry) called at `now`
select_option(chain, type, moneyness, days_to_expiry, time_of_day) ==
    LET OfType(o) == o.type = type
        Live(o) == InWindow(o, time_of_day, days_to_expiry)
        Bucket(o) == InBucket(o, type, moneyness)
        by_expiry == SelectSeq(SelectSeq(chain, OfType), Live)
        filtered == SelectSeq(by_expiry, Bucket)
    IN  IF by_expiry = <<>> THEN NoOption
        ELSE IF filtered = <<>> THEN NoOption
        ELSE [kind |-> "option", option |-> NearestToSpot(filtered)]

\* for o in option_chain: o['spot'] = spot_price
AttachSpot(chain, spot_price) ==
    [i \in 1..Len(chain) |-> [chain[i] EXCEPT !.spot = <<spot_price>>]]

\* abs(exposure) / abs(option['delta']) if option['delta'] else 1; the
\* round(contracts, 2) of the result leaves these quotients as they are
Contracts(exposure, option) ==
    IF option.delta # 0 THEN Rat(Abs(exposure), Abs(option.delta)) ELSE RatInt(1)


\* the dict hedge_with_protective_put returns for a chain the spot is attached to
protective_put(chain, portfolio_delta, time_of_day) ==
    LET put == select_option(chain, "put", "OTM", HedgeWindowDays, time_of_day)
    IN  IF put.kind = "None" THEN [kind |-> "dict", action |-> "no_put_found"]
        ELSE [kind |-> "dict", action |-> "buy_put",
              strike |-> put.option.strike, expiry |-> put.option.expiry,
              contracts |-> Contracts(portfolio_delta, put.option),
              option |-> put.option]

\* the dict hedge_with_covered_call returns
covered_call(chain, holdings, time_of_day) ==
    LET sel == select_option(chain, "call", "OTM", HedgeWindowDays, time_of_day)
    IN  IF sel.kind = "None" THEN [kind |-> "dict", action |-> "no_call_found"]
        ELSE [kind |-> "dict", action |-> "sell_call",
              strike |-> sel.option.strike, expiry |-> sel.option.expiry,
              contracts |-> Contracts(holdings, sel.option),
              option |-> sel.option]

\* the dict hedge_with_collar returns
collar(chain, holdings, time_of_day) ==
    LET put == select_option(chain, "put", "OTM", HedgeWindowDays, time_of_day)
        sel == select_option(chain, "call", "OTM", HedgeWindowDays, time_of_day)
    IN  IF put.kind = "None" \/ sel.kind = "None"
        THEN [kind |-> "dict", action |-> "no_collar_found"]
        ELSE [kind |-> "dict", action |-> "collar",
              put_strike |-> put.option.strike, call_strike |-> sel.option.strike,
              expiry |-> put.option.expiry,
              put_contracts |-> Contracts(holdings, put.option),
              call_contracts |-> Contracts(holdings, sel.option),
              put_option |-> put.option, call_option |-> sel.option]

\* what a call of select_option or of a hedge leaves alone
selectFrame == <<call, error, args, pos_i, spot_pnl, hedge_pnl, engineLocals, btVars, svcVars>>

\* a direct call of select_option
SelectOptionCall ==
    /\ pc = "select_option"
    /\ \E t \in TimesOfDay :
          /\ now' = t
          /\ result' = select_option(option_chain, args.type, args.moneyness,
                                     args.days_to_expiry, t)
    /\ pc' = "returned"
    /\ UNCHANGED <<option_chain, selectFrame>>

\* hedge_with_protective_put(asset, spot_price, portfolio_delta, option_chain)
HedgeWithProtectivePut ==
    /\ pc = "hedge_with_protective_put"
    /\ option_chain' = AttachSpot(option_chain, args.spot_price)
    /\ \E t \in TimesOfDay :
          /\ now' = t
          /\ result' = protective_put(option_chain', args.exposure, t)
    /\ pc' = "returned"
    /\ UNCHANGED selectFrame

\* hedge_with_covered_call(asset, spot_price, holdings, option_chain)
HedgeWithCoveredCall ==
    /\ pc = "hedge_with_covered_call"
    /\ option_chain' = AttachSpot(option_chain, args.spot_price)
    /\ \E t \in TimesOfDay :
          /\ now' = t
          /\ result' = covered_call(option_chain', args.exposure, t)
    /\ pc' = "returned"
    /\ UNCHANGED selectFrame

\* hedge_with_collar(asset, spot_price, holdings, option_chain)
HedgeWithCollar ==
    /\ pc = "hedge_with_collar"
    /\ option_chain' = AttachSpot(option_chain, args.spot_price)
    /\ \E t \in TimesOfDay :
          /\ now' = t
          /\ result' = collar(option_chain', args.exposure, t)
    /\ pc' = "returned"
    /\ UNCHANGED selectFrame

\* select_hedging_strategy(strategy_name, asset, spot, delta, option_chain)
SelectHedgingStrategy ==
    /\ pc = "select_hedging_strategy"
    /\ IF args.strategy_name \in {"protective_put", "covered_call", "collar"}
       THEN /\ option_chain' = AttachSpot(option_chain, args.spot_price)
            /\ \E t \in TimesOfDay :
                  /\ now' = t
                  /\ result' =
                       CASE args.strategy_name = "protective_put" ->
                               protective_put(option_chain', args.exposure, t)
                         [] args.strategy_name = "covered_call" ->
                               covered_call(option_chain', args.exposure, t)
                         [] args.strategy_name = "collar" ->
                               collar(option_chain', args.exposure, t)
       ELSE /\ result' = [kind |-> "dict", action |-> "unknown_strategy"]
            /\ UNCHANGED <<option_chain, now>>
    /\ pc' = "returned"
    /\ UNCHANGED selectFrame

\* HedgingEngine.compute_optimal_hedge_size(position, market_data, strategy,
\* risk_reduction); position.get("delta", 0), market_data.get("option_delta", 1)
compute_optimal_hedge_size(pos, market_data, strategy_name, risk_reduction) ==
    LET delta == IF pos = <<>> THEN 0 ELSE pos[1]
        option_delta == IF market_data = <<>> THEN 1 ELSE market_data[1]
    IN  IF strategy_name = "perpetual"
        THEN [kind |-> "float",
              value |-> Rat(-delta * risk_reduction.num, risk_reduction.den)]
        ELSE IF strategy_name = "option"
        THEN [kind |-> "float",
              value |-> IF option_delta # 0
                        THEN Rat(-delta * risk_reduction.num,
                                 option_delta * risk_reduction.den)
                        ELSE RatInt(0)]
        ELSE [kind |-> "raised", error |-> "ValueError"]

\* a call of compute_optimal_hedge_size
ComputeOptimalHedgeSize ==
    /\ pc = "compute_optimal_hedge_size"
    /\ LET r == compute_optimal_hedge_size(args.position, args.market_data,
                                           args.strategy, args.risk_reduction)
       IN  IF r.kind = "raised"
           THEN pc' = "raised" /\ error' = r.error /\ UNCHANGED result
           ELSE pc' = "returned" /\ result' = r /\ UNCHANGED error
    /\ UNCHANGED <<call, engineLocals, btVars, fnVars, svcVars>>

\* the chains of no, one or two options a caller holds: as built (sp = 0), or
\* with the spot sp an earlier hedge attached
HeldChains(sp) ==
    IF sp = 0 THEN UpToTwo(Options)
    ELSE {AttachSpot(c, sp) : c \in UpToTwo(Options)}

\* a call of one of the option-selection functions, or of the hedge sizing
InitSelect ==
    /\ call \in {"select_option", "hedge_with_protective_put",
                 "hedge_with_covered_call", "hedge_with_collar",
                 "select_hedging_strategy", "compute_optimal_hedge_size"}
    /\ pc = call
    /\ CASE call = "select_option" ->
              /\ \E sp \in 0..MaxStrike : option_chain \in HeldChains(sp)
              /\ args \in [type : {"put", "call"}, moneyness : {"ATM", "OTM", "ITM"},
                           days_to_expiry : {DefaultWindowDays, HedgeWindowDays},
                           option_chain : {option_chain}]
         [] call = "select_hedging_strategy" ->
              /\ option_chain \in HeldChains(0)
              /\ args \in [strategy_name : {"protective_put", "covered_call",
                                            "collar", "straddle"},
                           spot_price : 1..MaxStrike, exposure : HedgeExposures,
                           option_chain : {option_chain}]
         [] call = "compute_optimal_hedge_size" ->
              /\ option_chain = <<>>
              /\ args \in [position : {<<>>} \cup {<<d>> : d \in HedgeExposures},
                           market_data : {<<>>} \cup {<<d>> : d \in OptionDeltas},
                           strategy : {"perpetual", "option", "spot"},
                           risk_reduction : {Rat(1, 1), Rat(1, 2)}]
         [] OTHER ->
              /\ option_chain \in HeldChains(0)
              /\ args \in [spot_price : 1..MaxStrike, exposure : HedgeExposures,
                           option_chain : {option_chain}]
    /\ now = 0
    /\ pos_i = 1
    /\ spot_pnl = 0
    /\ hedge_pnl = 0
    /\ NoEngine
    /\ BacktestIdle
    /\ SvcIdle

NextSelect ==
    \/ SelectOptionCall
    \/ HedgeWithProtectivePut
    \/ HedgeWithCoveredCall
    \/ HedgeWithCollar
    \/ SelectHedgingStrategy
    \/ ComputeOptimalHedgeSize

SpecSelect == InitSelect /\ [][NextSelect]_vars


\* ------------- risk_metrics.optimize_option_hedge, StrategyEngine.options_based_hedge
\* A quoted option: strike and spot are the keys 'strike' and 'spot' of
\* options_based_hedge and 'K' and 'S' of optimize_option_hedge, price is
\* 'price' of the one and 'ask' of the other; expiry is in days from today.
QuotedOptions(sp) ==
    [strike : 1..MaxStrike, spot : {sp}, delta : OptionDeltas,
     price : 1..MaxPremium, expiry : ExpiryOffsets]
\* chains of no, one or two options quoted against the spot sp
QuotedChains(sp) == UpToTwo(QuotedOptions(sp))

\* a key (a, b) is less than another: first by a, then by b
KeyLess(x, y) == x[1] < y[1] \/ (x[1] = y[1] /\ x[2] < y[2])
\* min(chain, key=...): the first option whose key no other key is less than
FirstLeast(chain, keys) ==
    LET best == CHOOSE i \in 1..Len(chain) :
                    /\ \A j \in 1..Len(chain) : ~KeyLess(keys[j], keys[i])
                    /\ \A j \in 1..(i - 1) : KeyLess(keys[i], keys[j])
    IN  chain[best]

\* key=lambda x: abs(x['S'] - x['K'])
MoneynessKeys(chain) ==
    [i \in 1..Len(chain) |-> <<Abs(chain[i].spot - chain[i].strike), 0>>]
\* key=lambda x: (abs(x['delta'] - target_delta), x.get('ask', 1e9))
HedgeKeys(chain, target_delta) ==
    [i \in 1..Len(chain) |-> <<Abs(chain[i].delta - target_delta), chain[i].price>>]

\* is_dynamic_hedge_optimization_enabled(): get_config() holds no key
\* 'DYNAMIC_HEDGE_OPTIMIZATION', so the toggle reads its default
is_dynamic_hedge_optimization_enabled == FALSE

\* optimize_option_hedge(options_chain, target_delta, enable_optimization);
\* min() of an empty chain raises ValueError
optimize_option_hedge(options_chain, target_delta, enable_optimization) ==
    LET enabled == IF enable_optimization = "None"
                   THEN is_dynamic_hedge_optimization_enabled
                   ELSE enable_optimization = "True"
    IN  IF options_chain = <<>> THEN [kind |-> "raised", error |-> "ValueError"]
        ELSE IF ~enabled
        THEN [kind |-> "option", option |-> FirstLeast(options_chain, MoneynessKeys(options_chain))]
        ELSE [kind |-> "option", option |-> FirstLeast(options_chain, HedgeKeys(options_chain, target_delta))]

\* StrategyEngine.options_based_hedge(spot_position_size, option_chain, strategy)
options_based_hedge(spot_position_size, chain, strategy_name) ==
    IF chain = <<>> THEN [kind |-> "raised", error |-> "ValueError"]
    ELSE LET atm_option == FirstLeast(chain, MoneynessKeys(chain))
         IN  IF atm_option.delta = 0
             THEN [kind |-> "raised", error |-> "ZeroDivisionError"]
             ELSE [kind |-> "dict", strategy |-> strategy_name,
                   strike |-> atm_option.strike, expiry |-> atm_option.expiry,
                   contracts |-> Rat(Abs(spot_position_size), Abs(atm_option.delta)),
                   cost |-> Rat(Abs(spot_position_size) * atm_option.price,
                                Abs(atm_option.delta))]

\* a call of optimize_option_hedge
OptimizeOptionHedge ==
    /\ pc = "optimize_option_hedge"
    /\ LET r == optimize_option_hedge(option_chain, args.target_delta,
                                      args.enable_optimization)
       IN  IF r.kind = "raised"
           THEN pc' = "raised" /\ error' = r.error /\ UNCHANGED result
           ELSE pc' = "returned" /\ result' = r /\ UNCHANGED error
    /\ UNCHANGED <<call, engineLocals, btVars, fnVars, svcVars>>

\* a call of StrategyEngine.options_based_hedge
OptionsBasedHedge ==
    /\ pc = "options_based_hedge"
    /\ LET r == options_based_hedge(args.spot_position_size, option_chain, args.strategy)
       IN  IF r.kind = "raised"
           THEN pc' = "raised" /\ error' = r.error /\ UNCHANGED result
           ELSE pc' = "returned" /\ result' = r /\ UNCHANGED error
    /\ UNCHANGED <<call, engineLocals, btVars, fnVars, svcVars>>

InitOptimize ==
    /\ call \in {"optimize_option_hedge", "options_based_hedge"}
    /\ pc = call
    /\ \E sp \in 1..MaxStrike : option_chain \in QuotedChains(sp)
    /\ IF call = "optimize_option_hedge"
       THEN args \in [target_delta : HedgeExposures,
                      enable_optimization : {"None", "True", "False"}]
       ELSE args \in [spot_position_size : HedgeExposures,
                      strategy : {"protective_put"}]
    /\ now = 0
    /\ pos_i = 1
    /\ spot_pnl = 0
    /\ hedge_pnl = 0
    /\ NoEngine
    /\ BacktestIdle
    /\ SvcIdle

NextOptimize ==
    \/ OptimizeOptionHedge
    \/ OptionsBasedHedge

SpecOptimize == InitOptimize /\ [][NextOptimize]_vars


\* ------------------------- portfolio.multi_asset_hedging.optimal_hedge_allocation
\* A correlation of c is the integer c * CorrDen, so that 0.8 is 4; the
\* exposures are integers (in the test's case, halves of a unit of delta).
CorrDen == 5
CorrValues == {-CorrDen, 0, CorrDen - 1, CorrDen}
\* corr_matrix.values: 1 x 1 and 2 x 2 matrices, as rows
CorrMatrices ==
    {<<<<a>>>> : a \in CorrValues} \cup
    {<<<<a, b>>, <<c, d>>>> : a \in CorrValues, b \in CorrValues,
                              c \in CorrValues, d \in CorrValues}
\* the delta exposures of one asset (BTC) or of two (BTC, ETH), in the order
\* of the keys of the exposure map
ExposureVectors ==
    {<<x>> : x \in -MaxDelta..MaxDelta} \cup
    {<<x, y>> : x \in -MaxDelta..MaxDelta, y \in -MaxDelta..MaxDelta}

Det(m) == m[1][1] * m[2][2] - m[1][2] * m[2][1]
Frobenius(m) ==
    m[1][1] * m[1][1] + m[1][2] * m[1][2] + m[2][1] * m[2][1] + m[2][2] * m[2][2]
\* det(m) = 0
Singular(m) == IF Len(m) = 1 THEN m[1][1] = 0 ELSE Det(m) = 0

\* an inverse that is all zero
NoInverse(m) == [num |-> [i \in 1..Len(m) |-> [j \in 1..Len(m) |-> 0]], den |-> 1]
\* np.linalg.pinv(corr_matrix.values), exactly: the matrix num * CorrDen / den.
\* The inverse where there is one; for a singular matrix of rank 1 the
\* transpose over the sum of the squared entries; for the zero matrix, zero.
Pinv(m) ==
    IF Len(m) = 1
    THEN IF m[1][1] # 0 THEN [num |-> <<<<1>>>>, den |-> m[1][1]] ELSE NoInverse(m)
    ELSE IF Det(m) # 0
    THEN [num |-> <<<<m[2][2], -m[1][2]>>, <<-m[2][1], m[1][1]>>>>, den |-> Det(m)]
    ELSE IF Frobenius(m) # 0
    THEN [num |-> <<<<m[1][1], m[2][1]>>, <<m[1][2], m[2][2]>>>>, den |-> Frobenius(m)]
    ELSE NoInverse(m)

RECURSIVE Dot(_, _, _)
\* row . deltas over the first n entries
Dot(row, deltas, n) ==
    IF n = 0 THEN 0 ELSE Dot(row, deltas, n - 1) + row[n] * deltas[n]
RECURSIVE SumAbs(_, _)
\* np.sum(np.abs(v)) over the first n entries
SumAbs(v, n) == IF n = 0 THEN 0 ELSE SumAbs(v, n - 1) + Abs(v[n])

\* weights = -inv_corr @ deltas: the numerators over the one denominator
\* of the inverse, made positive
RawWeights(m, deltas) ==
    LET inv == Pinv(m)
        sign == IF inv.den < 0 THEN -1 ELSE 1
    IN  [num |-> [i \in 1..Len(deltas) |->
                     -CorrDen * sign * Dot(inv.num[i], deltas, Len(deltas))],
         den |-> sign * inv.den]

\* the fallback of the except branch
NaiveHedge(deltas) == [i \in 1..Len(deltas) |-> RatInt(-deltas[i])]

\* optimal_hedge_allocation(exposures, corr_matrix): the weights in the order
\* of the assets.  The product of an n x n matrix and a vector of another
\* length raises, and the except branch returns the naive hedge.
optimal_hedge_allocation(deltas, m) ==
    IF Len(m) # Len(deltas) THEN NaiveHedge(deltas)
    ELSE LET weights == RawWeights(m, deltas)
             total_abs == SumAbs(weights.num, Len(deltas))
         IN  IF total_abs > 0
             THEN [i \in 1..Len(deltas) |->
                      Rat(weights.num[i] * SumAbs(deltas, Len(deltas)), total_abs)]
             ELSE [i \in 1..Len(deltas) |-> Rat(weights.num[i], weights.den)]

\* a call of optimal_hedge_allocation
OptimalHedgeAllocation ==
    /\ pc = "optimal_hedge_allocation"
    /\ result' = [kind |-> "dict",
                  weights |-> optimal_hedge_allocation(args.exposures, args.corr_matrix)]
    /\ pc' = "returned"
    /\ UNCHANGED <<call, error, engineLocals, btVars, fnVars, svcVars>>

InitAlloc ==
    /\ call = "optimal_hedge_allocation"
    /\ pc = call
    /\ args \in [exposures : ExposureVectors, corr_matrix : CorrMatrices]
    /\ option_chain = <<>>
    /\ now = 0
    /\ pos_i = 1
    /\ spot_pnl = 0
    /\ hedge_pnl = 0
    /\ NoEngine
    /\ BacktestIdle
    /\ SvcIdle

NextAlloc == OptimalHedgeAllocation

SpecAlloc == InitAlloc /\ [][NextAlloc]_vars


\* ------------------------------------ risk_engine.risk_metrics: Black-Scholes
BlackScholesFunctions ==
    {"black_scholes_price", "calculate_delta", "calculate_gamma", "calculate_vega",
     "calculate_theta"}
\* calculate_gamma and calculate_vega have no option_type parameter
TypedFunctions == {"black_scholes_price", "calculate_delta", "calculate_theta"}
\* 'straddle' stands for any string that is neither 'call' nor 'put'
OptionTypes == {"call", "put", "straddle"}

\* d1 = (math.log(S / K) + (r + 0.5 * sigma ** 2) * T) / (sigma * math.sqrt(T)),
\* evaluated left to right: the exception the line raises, "" if it raises none.
\* S / K has the sign of S * K.
D1Error(S, K, T, sigma) ==
    IF K = 0 THEN "ZeroDivisionError"
    ELSE IF S * K <= 0 THEN "ValueError"
    ELSE IF T < 0 THEN "ValueError"
    ELSE IF sigma = 0 \/ T = 0 THEN "ZeroDivisionError"
    ELSE ""

\* if option_type == 'call': ... else: ...   the branch that computes the value
BranchOf(option_type) == IF option_type = "call" THEN "call" ELSE "put"

\* one of the five functions, from its first line to its return: after d1 no
\* line raises (the later divisors S * sigma * sqrt(T) and 2 * sqrt(T) are not
\* zero once d1 was computed); the number returned is a float whose value the
\* model does not compute
BlackScholesCall ==
    /\ call \in BlackScholesFunctions
    /\ pc = call
    /\ LET e == D1Error(args.S, args.K, args.T, args.sigma)
       IN  IF e # ""
           THEN pc' = "raised" /\ error' = e /\ UNCHANGED result
           ELSE /\ pc' = "returned"
                /\ result' = [kind |-> "float",
                              branch |-> IF call \in TypedFunctions
                                         THEN BranchOf(args.option_type) ELSE "None"]
                /\ UNCHANGED error
    /\ UNCHANGED <<call, engineLocals, btVars, fnVars, svcVars>>

\* a call of one of the five functions with numbers of any sign
InitBlackScholes ==
    /\ call \in BlackScholesFunctions
    /\ pc = call
    /\ args \in [S : -MaxParam..MaxParam, K : -MaxParam..MaxParam,
                  T : -MaxParam..MaxParam, sigma : -MaxParam..MaxParam,
                  option_type : IF call \in TypedFunctions THEN OptionTypes ELSE {"None"}]
    /\ option_chain = <<>>
    /\ now = 0
    /\ pos_i = 1
    /\ spot_pnl = 0
    /\ hedge_pnl = 0
    /\ NoEngine
    /\ BacktestIdle
    /\ SvcIdle

NextBlackScholes ==
    \/ BlackScholesCall

SpecBlackScholes == InitBlackScholes /\ [][NextBlackScholes]_vars


\* ------------------------------- risk_engine.risk_metrics: Greek aggregation
\* Floating point.  The totals are Python floats summed with "+=", and every
\* sum and product is rounded to the nearest float, ties to even.  The model
\* keeps the rounding and shortens the significand to SignificandBits bits:
\* a float of the model is an integer m * 2^e with m < 2^SignificandBits.
RECURSIVE RoundMag(_, _)
\* m >= 0 rounded to the nearest float, a multiple of unit or of a larger power of 2
RoundMag(m, unit) ==
    IF m >= (2 ^ SignificandBits) * unit THEN RoundMag(m, 2 * unit)
    ELSE LET q == m \div unit
             r == m % unit
         IN  IF 2 * r > unit \/ (2 * r = unit /\ q % 2 = 1)
             THEN (q + 1) * unit
             ELSE q * unit
Round(x) == IF x < 0 THEN -RoundMag(-x, 1) ELSE RoundMag(x, 1)
\* a + b and a * b of two floats
FAdd(a, b) == Round(a + b)
FMul(a, b) == Round(a * b)

\* pos.get(key, default)
Get(pos, key, default) == IF key \in DOMAIN pos THEN pos[key] ELSE default

\* quantities of a position: floats of either sign
PositionSizes == ((-MaxLots..MaxLots) \ {0}) \cup {2 ^ SignificandBits}

\* the position dicts: those the callers build carry the quantity under
\* 'size' (main.py line 30, telegram_bot.py line 165, with 'delta' set to the
\* size on lines 70 and 168), others carry it under 'position_size'; an
\* option is given by its option_type, which stands for its S, K, T, r, sigma
RiskPositions ==
    {[type |-> "spot", size |-> q, delta |-> q] : q \in PositionSizes}
        \cup [type : {"spot", "perpetual"}, position_size : PositionSizes]
        \cup [type : {"option"}, option_type : {"call", "put"}, size : {1}]
        \cup [type : {"option"}, option_type : {"call", "put"},
              position_size : PositionSizes]

\* calculate_delta, calculate_gamma, calculate_vega and calculate_theta of an
\* option's parameters, in the unit of the model's floats: a call has a
\* positive delta, a put a negative one, both a positive gamma and vega and a
\* negative theta
UnitGreeks(pos) ==
    [delta |-> IF pos.option_type = "call" THEN 1 ELSE -1,
     gamma |-> 1, vega |-> 2, theta |-> -1]

ZeroGreeks == [delta |-> 0, gamma |-> 0, vega |-> 0, theta |-> 0]
\* total_delta += delta; total_gamma += gamma; ...
AddGreeks(total, g) ==
    [delta |-> FAdd(total.delta, g.delta), gamma |-> FAdd(total.gamma, g.gamma),
     vega |-> FAdd(total.vega, g.vega), theta |-> FAdd(total.theta, g.theta)]

\* lines 74-84: size = pos.get('position_size', 1) and the Greeks of the position
Contribution(pos) ==
    LET sz == Get(pos, "position_size", 1)
        unit_greeks == UnitGreeks(pos)
    IN  IF pos.type = "option"
        THEN [delta |-> FMul(unit_greeks.delta, sz), gamma |-> FMul(unit_greeks.gamma, sz),
              vega |-> FMul(unit_greeks.vega, sz), theta |-> FMul(unit_greeks.theta, sz)]
        ELSE [delta |-> sz, gamma |-> 0, vega |-> 0, theta |-> 0]

RECURSIVE RisksOfFirst(_, _)
\* the totals after the first n iterations of: for pos in positions
RisksOfFirst(positions, n) ==
    IF n = 0 THEN ZeroGreeks
    ELSE AddGreeks(RisksOfFirst(positions, n - 1), Contribution(positions[n]))
aggregate_portfolio_risks(positions) == RisksOfFirst(positions, Len(positions))

\* ------------------- portfolio.multi_asset_hedging.compute_portfolio_exposure
Assets == {"BTC", "ETH"}
\* positions with their Greeks, or with the delta alone
ExposurePositions ==
    [symbol : Assets, delta : PositionSizes]
        \cup [symbol : Assets, delta : PositionSizes, gamma : {1}, vega : {2},
              theta : {-1}]

\* lines 22-25: the Greeks of a position, 0 for a missing key
GreeksOf(pos) ==
    [delta |-> Get(pos, "delta", 0), gamma |-> Get(pos, "gamma", 0),
     vega |-> Get(pos, "vega", 0), theta |-> Get(pos, "theta", 0)]

RECURSIVE ExposureOfFirst(_, _)
\* exposures after the first n iterations: a dict asset -> totals, with a key
\* for each asset seen
ExposureOfFirst(positions, n) ==
    IF n = 0 THEN <<>>
    ELSE LET before == ExposureOfFirst(positions, n - 1)
             pos == positions[n]
             total == IF pos.symbol \in DOMAIN before THEN before[pos.symbol]
                      ELSE ZeroGreeks
         IN  [a \in DOMAIN before \cup {pos.symbol} |->
                 IF a = pos.symbol THEN AddGreeks(total, GreeksOf(pos)) ELSE before[a]]
compute_portfolio_exposure(positions) == ExposureOfFirst(positions, Len(positions))

\* agg = aggregate_portfolio_risks(positions)
AggregatePortfolioRisks ==
    /\ call = "aggregate_portfolio_risks"
    /\ pc = call
    /\ result' = [kind |-> "dict", value |-> aggregate_portfolio_risks(args.positions)]
    /\ pc' = "returned"
    /\ UNCHANGED <<call, error, engineLocals, btVars, fnVars, svcVars>>

\* exposures = compute_portfolio_exposure(positions)
ComputePortfolioExposure ==
    /\ call = "compute_portfolio_exposure"
    /\ pc = call
    /\ result' = [kind |-> "dict", value |-> compute_portfolio_exposure(args.positions)]
    /\ pc' = "returned"
    /\ UNCHANGED <<call, error, engineLocals, btVars, fnVars, svcVars>>

\* a call of one of the two aggregations on a list of positions
InitGreeks ==
    /\ call \in {"aggregate_portfolio_risks", "compute_portfolio_exposure"}
    /\ pc = call
    /\ \E positions \in SeqsUpTo(IF call = "aggregate_portfolio_risks"
                                  THEN RiskPositions ELSE ExposurePositions,
                                  MaxPositions) :
          args = [positions |-> positions]
    /\ option_chain = <<>>
    /\ now = 0
    /\ pos_i = 1
    /\ spot_pnl = 0
    /\ hedge_pnl = 0
    /\ NoEngine
    /\ BacktestIdle
    /\ SvcIdle

NextGreeks ==
    \/ AggregatePortfolioRisks
    \/ ComputePortfolioExposure

SpecGreeks == InitGreeks /\ [][NextGreeks]_vars


\* ------------------------------------------- exchange_api: the network calls
\* DeribitClient.authenticate and DeribitClient._request (reached through
\* get_orderbook, get_instruments and get_account_summary), and the
\* fetch_spot_price of okx.py, bybit.py and deribit.py
DeribitCalls == {"authenticate", "_request"}
Endpoints == {"/public/get_order_book", "/public/get_instruments",
              "/private/get_account_summary"}
SpotExchanges == {"okx", "bybit", "deribit"}
\* how a request can fail: no answer, a bad status code (raise_for_status), or
\* an answer without the key the code reads
Failures == {"timeout", "http_error", "bad_payload"}
\* what fetch_spot_price's except clause catches: requests.exceptions.RequestException
RequestExceptions == {"timeout", "http_error"}
\* "ok": an answer with the value; "no_data": an answer with an empty list
Outcomes == {"ok", "no_data"} \cup Failures

\* if USE_MOCK: return   (lines 24-26 and 44-45): no request is sent
MockReturn ==
    /\ call \in DeribitCalls
    /\ pc = call
    /\ args.use_mock
    /\ pc' = "returned"
    /\ result' = [kind |-> "mock"]
    /\ UNCHANGED <<call, error, engineLocals, btVars, fnVars, svcVars>>

\* one iteration of: for _ in range(3): try: get, raise_for_status, return
\* ... except Exception: await asyncio.sleep(1)
Attempt ==
    /\ call \in DeribitCalls
    /\ pc = call
    /\ ~args.use_mock
    /\ Len(attempts) < RetryLimit
    /\ \E outcome \in {"ok"} \cup Failures :
          /\ attempts' = Append(attempts, outcome)
          /\ IF outcome = "ok"
             THEN /\ pc' = "returned"
                  /\ result' = [kind |-> "result"]
                  /\ UNCHANGED waited
             ELSE /\ waited' = waited + RetryDelay
                  /\ UNCHANGED <<pc, result>>
    /\ UNCHANGED <<call, error, engineLocals, btVars, fnVars>>
    /\ UNCHANGED <<monitoring_tasks, user_monitor_context, loops, alerts, updates_left>>

\* after the loop: raise RuntimeError("Failed to ...")
GiveUp ==
    /\ call \in DeribitCalls
    /\ pc = call
    /\ ~args.use_mock
    /\ Len(attempts) = RetryLimit
    /\ pc' = "raised"
    /\ error' = "RuntimeError"
    /\ UNCHANGED <<call, result, engineLocals, btVars, fnVars, svcVars>>

\* fetch_spot_price(symbol): one requests.get inside try / except
\* RequestException, which prints and returns None; a KeyError of the payload
\* is not caught
FetchSpotPrice ==
    /\ call = "fetch_spot_price"
    /\ pc = call
    /\ \E outcome \in Outcomes :
          /\ attempts' = Append(attempts, outcome)
          /\ CASE outcome = "ok" ->
                    /\ pc' = "returned"
                    /\ result' = [kind |-> "float"]
                    /\ UNCHANGED error
               [] outcome = "no_data" ->
                    /\ pc' = "returned"
                    /\ result' = [kind |-> "None"]
                    /\ UNCHANGED error
               [] outcome \in RequestExceptions ->
                    /\ pc' = "returned"
                    /\ result' = [kind |-> "None"]
                    /\ UNCHANGED error
               [] OTHER ->
                    /\ pc' = "raised"
                    /\ error' = "KeyError"
                    /\ UNCHANGED result
    /\ UNCHANGED <<call, waited, engineLocals, btVars, fnVars>>
    /\ UNCHANGED <<monitoring_tasks, user_monitor_context, loops, alerts, updates_left>>

\* a call of one of the network functions
InitNetwork ==
    /\ call \in DeribitCalls \cup {"fetch_spot_price"}
    /\ pc = call
    /\ CASE call = "authenticate" -> args \in [use_mock : BOOLEAN]
         [] call = "_request" -> args \in [use_mock : BOOLEAN, endpoint : Endpoints]
         [] call = "fetch_spot_price" -> args \in [exchange : SpotExchanges]
    /\ option_chain = <<>>
    /\ now = 0
    /\ pos_i = 1
    /\ spot_pnl = 0
    /\ hedge_pnl = 0
    /\ NoEngine
    /\ BacktestIdle
    /\ SvcIdle

NextNetwork ==
    \/ MockReturn
    \/ Attempt
    \/ GiveUp
    \/ FetchSpotPrice

SpecNetwork == InitNetwork /\ [][NextNetwork]_vars


\* ------------------------------------- telegram_bot: the monitoring sessions
\* The bot handles one update at a time; a handler runs without interruption
\* between two of its awaits, and the monitor loops, which are asyncio tasks,
\* run while a handler awaits and between the updates.  The model takes the
\* Deribit client as it is by default (USE_MOCK_DERIBIT unset), so that
\* "await client.authenticate()" suspends the loop.
Chats == {101, 202}
Symbols == {"BTC", "ETH"}
MonitoredSizes == {2}
Thresholds == {0, 2}
ButtonData == {"hedge_now", "adjust_threshold", "stop_monitoring", "other"}
\* a text message: one float() turns into a number, or one it rejects
Texts == [number : {TRUE}, value : Thresholds] \cup {[number |-> FALSE]}

\* what the bot's handlers and tasks leave alone
botFrame == <<use_mock, size, side, order_book, order_size, depth, levels, k,
              filled, cost, avg_price, slippage, exchange, quote_price, csv_log,
              error, result, btVars, option_chain, now, pos_i, spot_pnl,
              hedge_pnl, attempts, waited>>

\* one key for every chat
SharedKey(chat_id) == 101
\* the key of a chat in monitoring_tasks and user_monitor_context
ContextKey(chat_id) == chat_id
\* d[key] = value on a dict
Put(d, key, value) ==
    [x \in DOMAIN d \cup {key} |-> IF x = key THEN value ELSE d[x]]
\* monitoring_tasks.get(chat_id): a missing key and False are both falsy
Monitoring(chat_id) == monitoring_tasks[ContextKey(chat_id)] = "True"
\* user_monitor_context.get(chat_id, {})
Context(chat_id) == user_monitor_context[ContextKey(chat_id)]

\* the monitor_loop tasks that have not ended
Running == {i \in DOMAIN loops : loops[i].pc # "ended"}

\* /monitor_risk with fewer than 3 arguments or a size or threshold float()
\* rejects: a reply and nothing else (lines 147-152 and 198-199)
MonitorRiskRejected ==
    /\ pc = "idle"
    /\ updates_left > 0
    /\ \E chat_id \in Chats :
          /\ call' = "monitor_risk"
          /\ args' = [chat |-> chat_id]
    /\ updates_left' = updates_left - 1
    /\ UNCHANGED <<pc, botFrame>>
    /\ UNCHANGED <<monitoring_tasks, user_monitor_context, loops, alerts>>

\* /monitor_risk <symbol> <position_size> <risk_threshold>, lines 146-155: the
\* context is stored and the handler awaits its reply
MonitorRisk ==
    /\ pc = "idle"
    /\ updates_left > 0
    /\ \E chat_id \in Chats, symbol \in Symbols, position_size \in MonitoredSizes,
          risk_threshold \in Thresholds :
          /\ call' = "monitor_risk"
          /\ args' = [chat |-> chat_id, symbol |-> symbol,
                      position_size |-> position_size]
          /\ user_monitor_context' =
                 [user_monitor_context EXCEPT ![ContextKey(chat_id)] =
                     [symbol |-> symbol, position_size |-> position_size,
                      risk_threshold |-> risk_threshold]]
    /\ pc' = "reply"
    /\ updates_left' = updates_left - 1
    /\ UNCHANGED botFrame
    /\ UNCHANGED <<monitoring_tasks, loops, alerts>>

\* lines 196-197, after the reply: monitoring_tasks[chat_id] = True and
\* asyncio.create_task(monitor_loop()); the task has symbol and position_size
\* in its closure
StartMonitoring ==
    /\ call = "monitor_risk"
    /\ pc = "reply"
    /\ monitoring_tasks' = [monitoring_tasks EXCEPT ![ContextKey(args.chat)] = "True"]
    /\ loops' = Append(loops, [chat |-> args.chat, symbol |-> args.symbol,
                               position_size |-> args.position_size, pc |-> "start"])
    /\ pc' = "idle"
    /\ UNCHANGED <<call, args, botFrame>>
    /\ UNCHANGED <<user_monitor_context, alerts, updates_left>>

\* the reply of line 155 raises: except Exception (lines 198-199), no task
ReplyFailed ==
    /\ call = "monitor_risk"
    /\ pc = "reply"
    /\ pc' = "idle"
    /\ UNCHANGED <<call, args, botFrame, monitoring_tasks, user_monitor_context,
                   loops, alerts, updates_left>>

\* /stop_risk_monitoring, lines 201-207
StopRiskMonitoring ==
    /\ pc = "idle"
    /\ updates_left > 0
    /\ \E chat_id \in Chats :
          /\ call' = "stop_risk_monitoring"
          /\ args' = [chat |-> chat_id]
          /\ monitoring_tasks' =
                 IF Monitoring(chat_id)
                 THEN [monitoring_tasks EXCEPT ![ContextKey(chat_id)] = "False"]
                 ELSE monitoring_tasks
    /\ updates_left' = updates_left - 1
    /\ UNCHANGED <<pc, botFrame>>
    /\ UNCHANGED <<user_monitor_context, loops, alerts>>

\* button_callback, lines 92-128
ButtonCallback ==
    /\ pc = "idle"
    /\ updates_left > 0
    /\ \E chat_id \in Chats, data \in ButtonData :
          /\ call' = "button_callback"
          /\ args' = [chat |-> chat_id, data |-> data]
          /\ user_monitor_context' =
                 IF data = "adjust_threshold"
                 THEN [user_monitor_context EXCEPT ![ContextKey(chat_id)] =
                          Put(Context(chat_id), "awaiting_threshold", TRUE)]
                 ELSE user_monitor_context
          /\ monitoring_tasks' =
                 IF data = "stop_monitoring"
                 THEN [monitoring_tasks EXCEPT ![ContextKey(chat_id)] = "False"]
                 ELSE monitoring_tasks
    /\ updates_left' = updates_left - 1
    /\ UNCHANGED <<pc, botFrame>>
    /\ UNCHANGED <<loops, alerts>>

\* handle_text, lines 130-141
HandleText ==
    /\ pc = "idle"
    /\ updates_left > 0
    /\ \E chat_id \in Chats, text \in Texts :
          /\ call' = "handle_text"
          /\ args' = [chat |-> chat_id, text |-> text]
          /\ user_monitor_context' =
                 IF Get(Context(chat_id), "awaiting_threshold", FALSE) /\ text.number
                 THEN [user_monitor_context EXCEPT ![ContextKey(chat_id)] =
                          Put(Put(Context(chat_id), "risk_threshold", text.value),
                              "awaiting_threshold", FALSE)]
                 ELSE user_monitor_context
    /\ updates_left' = updates_left - 1
    /\ UNCHANGED <<pc, botFrame>>
    /\ UNCHANGED <<monitoring_tasks, loops, alerts>>

\* a task starts, or wakes from asyncio.sleep(30), and evaluates
\* while monitoring_tasks.get(chat_id): it goes on to
\* await client.authenticate(), or ends
LoopCheck ==
    /\ \E i \in DOMAIN loops :
          /\ loops[i].pc \in {"start", "sleep"}
          /\ loops' = [loops EXCEPT ![i].pc =
                 IF Monitoring(loops[i].chat) THEN "authenticate" ELSE "ended"]
    /\ UNCHANGED <<call, pc, args, botFrame>>
    /\ UNCHANGED <<monitoring_tasks, user_monitor_context, alerts,
                   updates_left>>

\* positions = [{..., "size": position_size, "type": "spot", ...}] with
\* pos["delta"] = pos["size"] (lines 164-171)
MonitoredPositions(position_size) ==
    <<[type |-> "spot", size |-> position_size, delta |-> position_size]>>

\* authenticate has returned, lines 164-194: the aggregate, the breach test
\* against the chat's threshold, the alert if breached, and the sleep; if
\* authenticate raised, the "Monitor error" message (not a risk alert) and
\* the sleep
LoopEvaluate ==
    /\ \E i \in DOMAIN loops, authenticated \in BOOLEAN :
          LET chat_id == loops[i].chat
              agg == aggregate_portfolio_risks(MonitoredPositions(loops[i].position_size))
              risk_threshold == Context(chat_id).risk_threshold
              breached == agg.delta > risk_threshold
          IN  /\ loops[i].pc = "authenticate"
              /\ IF authenticated /\ breached
                 THEN /\ Len(alerts[chat_id]) < MaxAlerts
                      /\ alerts' = [alerts EXCEPT ![chat_id] =
                             Append(@, [symbol |-> loops[i].symbol, delta |-> agg.delta,
                                        risk_threshold |-> risk_threshold])]
                 ELSE UNCHANGED alerts
              /\ loops' = [loops EXCEPT ![i].pc = "sleep"]
    /\ UNCHANGED <<call, pc, args, botFrame>>
    /\ UNCHANGED <<monitoring_tasks, user_monitor_context, updates_left>>

\* the bot has started: both dicts are empty and no update was received
InitMonitor ==
    /\ call = "None"
    /\ pc = "idle"
    /\ NoEngine
    /\ BacktestIdle
    /\ FnIdle
    /\ NoNetworkCall
    /\ monitoring_tasks = [c \in Chats |-> "None"]
    /\ user_monitor_context = [c \in Chats |-> <<>>]
    /\ loops = <<>>
    /\ alerts = [c \in Chats |-> <<>>]
    /\ updates_left = MaxUpdates

NextMonitor ==
    \/ MonitorRiskRejected
    \/ MonitorRisk
    \/ StartMonitoring
    \/ ReplyFailed
    \/ StopRiskMonitoring
    \/ ButtonCallback
    \/ HandleText
    \/ LoopCheck
    \/ LoopEvaluate

SpecMonitor == InitMonitor /\ [][NextMonitor]_vars


\* --------------------------------------------------- claims on the backtest
\* the largest of the first n equity points
RECURSIVE MaxOfFirst(_, _)
MaxOfFirst(curve, n) ==
    IF n = 1 THEN curve[1] ELSE Max(MaxOfFirst(curve, n - 1), curve[n])

\* C7: after every step the equity point recorded for the step is
\* cash + position * (current price - first price of the series), with the
\* cash and the position as they are after the step's hedge.
C7_EquityIsMarkToMarket ==
    LET n == Len(pnl_curve)
    IN  n > 0 =>
          pnl_curve[n] = cash + position * (price_data[n] - price_data[1]) * MoneyScale

\* C7 witness: a step was recorded with a position, paid charges and a price
\* away from the first price of the series.
C7_Witness ==
    /\ Len(pnl_curve) >= 2
    /\ position # 0
    /\ cash < 0
    /\ price_data[Len(pnl_curve)] # price_data[1]

\* C8 as claimed: every recorded drawdown is the maximum of the equity points
\* recorded up to that step minus the equity of the step.
C8_DrawdownFromRecordedMax ==
    \A n \in 1..Len(drawdowns) :
        drawdowns[n] = MaxOfFirst(pnl_curve, n) - pnl_curve[n]

\* C8 amended: every recorded drawdown is the maximum of the initial equity 0
\* and the equity points recorded up to that step, minus the equity of the step.
C8_DrawdownFromRunningMax ==
    \A n \in 1..Len(drawdowns) :
        drawdowns[n] = Max(0, MaxOfFirst(pnl_curve, n)) - pnl_curve[n]

\* C8 witness: the equity rose above 0 and then fell below that maximum.
C8_Witness ==
    \E n \in 1..Len(drawdowns) :
        /\ MaxOfFirst(pnl_curve, n) > 0
        /\ drawdowns[n] > 0

\* C9: a step whose action requests a hedge takes exactly
\* |hedge_size| * price * (0.0005 + 0.0002) off the cash and adds hedge_size to
\* the position; a step whose action requests none leaves cash, position and
\* the hedge-cost log as they were.
C9_StepEffect ==
    [][(bt_pc = "loop" /\ step' = step + 1) =>
          LET action == actions'[step]
              close == price_data[step]
          IN  IF action.hedge
              THEN /\ cash - cash' =
                         Abs(action.hedge_size) * close * (BtFeeNum + BtSlipNum)
                   /\ position' = position + action.hedge_size
              ELSE /\ cash' = cash
                   /\ position' = position
                   /\ hedge_costs' = hedge_costs]_vars

\* C9 witness: a run has taken a step with a hedge of a non-zero size and a
\* step whose action named a size but requested no hedge.
C9_Witness ==
    /\ Len(hedge_costs) = 1
    /\ cash < 0
    /\ \E i, j \in 1..Len(actions) :
          /\ actions[i].hedge /\ actions[i].hedge_size # 0
          /\ ~actions[j].hedge /\ actions[j].hedge_size # 0

\* C10: two runs given the same deterministic strategy callback and the same
\* price series return the same equity, drawdown and exposure curves and the
\* same action log, whatever was run before them.
C10_RunsReproducible ==
    \A i, j \in 1..Len(history) :
        (/\ history[i].strategy \in DeterministicStrategies
         /\ history[i].strategy = history[j].strategy
         /\ history[i].price_data = history[j].price_data)
        => /\ history[i].result.pnl_curve = history[j].result.pnl_curve
           /\ history[i].result.drawdowns = history[j].result.drawdowns
           /\ history[i].result.exposures = history[j].result.exposures
           /\ history[i].result.actions = history[j].result.actions

\* C10 witness: a hedging strategy was run, then another strategy that left
\* the engine with another position, then the first strategy again, on a
\* series of two rows or more.
C10_Witness ==
    \E i, j, l \in 1..Len(history) :
        /\ i < j /\ j < l
        /\ history[i].strategy = history[l].strategy
        /\ history[j].strategy # history[i].strategy
        /\ Len(history[i].result.hedge_costs) > 0
        /\ Len(history[j].result.hedge_costs) > 0
        /\ Len(history[i].price_data) >= 2

\* a price series that has a return at all: two rows or more, not all at one
\* price
NonDegenerate(series) ==
    \E i, j \in 1..Len(series) : series[i] # series[j]

\* C11: a run of run_backtest leaves the results directory and its files as
\* they were: no step of a run, its return included, writes to storage.
C11_RunLeavesStorage ==
    [][files' = files]_vars

\* C12: the VaR_95 every run on a non-degenerate price series returns is a
\* number and is >= 0.
C12_VarNonNegative ==
    \A i \in 1..Len(history) :
        NonDegenerate(history[i].price_data)
        => /\ ~history[i].result.VaR_95.nan
           /\ history[i].result.VaR_95.num >= 0

\* ------------------------------------------------ claims on the P&L tracker
\* the sum of the P&L of the first n positions of a portfolio that are
\* 'spot' positions (spot_leg) or that are not (~spot_leg)
RECURSIVE SumPnl(_, _, _, _)
SumPnl(pf, market_prices, n, spot_leg) ==
    IF n = 0 THEN 0
    ELSE SumPnl(pf, market_prices, n - 1, spot_leg)
         + (IF (pf[n].type = "spot") = spot_leg
            THEN (IF pf[n].direction = "long" THEN 1 ELSE -1)
                 * (CurrentPrice(pf[n], market_prices) - pf[n].entry_price) * pf[n].size
            ELSE 0)

\* C13: calculate_hedge_effectiveness never raises, returns 0 when
\* spot_pnl + hedge_pnl is 0 and 100 * hedge_pnl / (spot_pnl + hedge_pnl)
\* otherwise; the effectiveness compute_portfolio_pnl returns is that of the
\* summed P&L of the 'spot' positions and the summed P&L of all the others.
C13_HedgeEffectiveness ==
    /\ call = "calculate_hedge_effectiveness" =>
          /\ pc # "raised"
          /\ pc = "returned" =>
                LET total == args.spot_pnl + args.hedge_pnl
                IN  IF total = 0 THEN result.value.num = 0
                    ELSE result.value.num * total = 100 * args.hedge_pnl * result.value.den
    /\ (call = "compute_portfolio_pnl" /\ pc = "returned") =>
          LET n == Len(args.portfolio)
              spot == SumPnl(args.portfolio, args.market_prices, n, TRUE)
              hedge == SumPnl(args.portfolio, args.market_prices, n, FALSE)
              eff == result.hedge_effectiveness
          IN  /\ result.spot_pnl = spot
              /\ result.hedge_pnl = hedge
              /\ IF spot + hedge = 0 THEN eff.num = 0
                 ELSE eff.num * (spot + hedge) = 100 * hedge * eff.den

\* C13 witness: long 1 spot and short 2 perpetuals through a fall of the
\* price by one: spot P&L -1, hedge P&L +2, effectiveness 200.
C13_Witness ==
    /\ call = "compute_portfolio_pnl"
    /\ pc = "returned"
    /\ Len(args.portfolio) = 2
    /\ args.portfolio[1].type = "spot" /\ args.portfolio[1].direction = "long"
    /\ args.portfolio[1].size = 1
    /\ args.portfolio[2].type = "perp" /\ args.portfolio[2].direction = "short"
    /\ args.portfolio[2].size = 2
    /\ result.spot_pnl = -1
    /\ result.hedge_pnl = 2
    /\ result.hedge_effectiveness.num = 200 * result.hedge_effectiveness.den

\* --------------------------------------------- claims on the option hedges
HedgeCalls == {"hedge_with_protective_put", "hedge_with_covered_call", "hedge_with_collar"}
\* the hedge a call makes: the function called, or the one the router names
HedgeMade ==
    CASE call = "hedge_with_protective_put" -> "protective_put"
      [] call = "hedge_with_covered_call" -> "covered_call"
      [] call = "hedge_with_collar" -> "collar"
      [] call = "select_hedging_strategy" -> args.strategy_name
      [] OTHER -> "None"

\* C14: a contracts-needed ratio whose denominator, the delta of the selected
\* option, is 0 is returned as 0: by the three option hedges for each option
\* they select, and by compute_optimal_hedge_size with strategy 'option'.
C14_ZeroDeltaGivesZero ==
    /\ (call \in HedgeCalls /\ pc = "returned") =>
          /\ (result.action \in {"buy_put", "sell_call"} /\ result.option.delta = 0)
                => result.contracts.num = 0
          /\ (result.action = "collar" /\ result.put_option.delta = 0)
                => result.put_contracts.num = 0
          /\ (result.action = "collar" /\ result.call_option.delta = 0)
                => result.call_contracts.num = 0
    /\ (/\ call = "compute_optimal_hedge_size"
        /\ pc # "compute_optimal_hedge_size"
        /\ args.strategy = "option"
        /\ args.market_data = <<0>>)
       => (pc = "returned" /\ result.value.num = 0)

\* the options of the caller's chain of the given type that are out of the
\* money against the spot price given to the hedge and whose expiry is at
\* most HedgeWindowDays whole days from the time of the call, counted as the
\* function counts them
OtmCandidates(type) ==
    {i \in 1..Len(args.option_chain) :
        LET o == args.option_chain[i]
        IN  /\ o.type = type
            /\ Abs((o.expiry * PartsPerDay - now) \div PartsPerDay) <= HedgeWindowDays
            /\ IF type = "put" THEN o.strike < args.spot_price
               ELSE o.strike > args.spot_price}

PassesFilters(o) ==
    /\ o.type = args.type
    /\ Abs(o.expiry * PartsPerDay - now) <= args.days_to_expiry * PartsPerDay
    /\ CASE args.moneyness = "OTM" ->
              IF args.type = "put" THEN o.strike < SpotOf(o) ELSE o.strike > SpotOf(o)
         [] args.moneyness = "ITM" ->
              IF args.type = "put" THEN o.strike > SpotOf(o) ELSE o.strike < SpotOf(o)
         [] OTHER -> TRUE

\* C17: the option select_option returns has the requested type, an expiry
\* within days_to_expiry days of now and a strike in the requested bucket,
\* and no option passing the same filters has a strike strictly nearer to
\* the spot; None is returned exactly when no option passes the filters.
C17_SelectedOptionIsNearest ==
    (call = "select_option" /\ pc = "returned") =>
       LET passing == {i \in 1..Len(args.option_chain) :
                          PassesFilters(args.option_chain[i])}
       IN  /\ result.kind = "None" <=> passing = {}
           /\ result.kind = "option" =>
                 /\ PassesFilters(result.option)
                 /\ \A i \in passing :
                       Abs(args.option_chain[i].strike - SpotOf(args.option_chain[i]))
                          >= Abs(result.option.strike - SpotOf(result.option))

\* C18: after one of the three option hedges has returned, every option of
\* the caller's chain has the fields and the values it had before the call.
C18_ChainNotMutated ==
    (call \in HedgeCalls /\ pc = "returned") => option_chain = args.option_chain

\* an expiry within HedgeWindowDays days of the call, at some time of the day
InExpiryWindow(o) ==
    \E t \in TimesOfDay :
        Abs(o.expiry * PartsPerDay - t) <= HedgeWindowDays * PartsPerDay

\* C15: a call of optimize_option_hedge or of options_based_hedge on an empty
\* chain, or on a chain no option of which expires within the expiry window,
\* ends with a NoSuitableOptionError and returns no option.
C15_NoSuitableOptionError ==
    (/\ call \in {"optimize_option_hedge", "options_based_hedge"}
     /\ pc # call
     /\ \A i \in 1..Len(option_chain) : ~InExpiryWindow(option_chain[i]))
    => (pc = "raised" /\ error = "NoSuitableOptionError")

\* ------------------------------------------ claims on the hedge allocation
RECURSIVE SumAbsWeights(_, _)
\* the sum of |weight| over the first n weights
SumAbsWeights(w, n) ==
    IF n = 0 THEN RatInt(0) ELSE RatAdd(SumAbsWeights(w, n - 1), RatAbs(w[n]))

\* C19: the allocation returned holds a weight for every asset of the
\* exposure map, and the sum of |weight| equals the sum of |delta exposure|.
C19_WeightsKeepTotalExposure ==
    (call = "optimal_hedge_allocation" /\ pc = "returned") =>
       /\ DOMAIN result.weights = 1..Len(args.exposures)
       /\ RatEq(SumAbsWeights(result.weights, Len(args.exposures)),
                RatInt(SumAbs(args.exposures, Len(args.exposures))))

\* C20: for a singular correlation matrix, and for one whose inversion or
\* product with the exposures fails, the allocation returned is the naive
\* hedge: weight = -exposure for every asset.
C20_SingularFallsBackToNaive ==
    (/\ call = "optimal_hedge_allocation"
     /\ pc = "returned"
     /\ (Len(args.corr_matrix) # Len(args.exposures) \/ Singular(args.corr_matrix)))
    => \A i \in 1..Len(args.exposures) :
          RatEq(result.weights[i], RatInt(-args.exposures[i]))

\* ------------------------------------- further claims on the backtest
\* C30: in run_backtest every recorded drawdown is >= 0, the running maximum
\* equity never decreases from one step of a run to the next, and the equity,
\* drawdown, exposure and action sequences each hold one entry per price point
\* processed so far.
C30_BacktestInvariants ==
    [][/\ \A n \in 1..Len(drawdowns') : drawdowns'[n] >= 0
       /\ (bt_pc = "loop" /\ bt_pc' = "loop") => max_equity' >= max_equity
       /\ Len(pnl_curve') = step' - 1
       /\ Len(drawdowns') = step' - 1
       /\ Len(exposures') = step' - 1
       /\ Len(actions') = step' - 1]_vars

\* C30 witness: a run has processed every point of a series of MaxSteps rows,
\* its equity rose above 0 and a later step recorded a drawdown from it.
C30_Witness ==
    /\ bt_pc = "loop"
    /\ step = MaxSteps + 1
    /\ max_equity > 0
    /\ \E n \in 2..Len(drawdowns) : drawdowns[n] > 0 /\ pnl_curve[n - 1] > 0

\* the threshold 1e-2 of the comparison, in units of 1 / MoneyScale
FlatTolerance == MoneyScale \div 100

\* C27: on the same price series, the final PnL of a run of
\* delta_neutral_strategy is within 0.01 of zero or strictly greater than the
\* final PnL of a run of no_hedge_strategy; every run starts flat.
C27_DeltaNeutralFlatOrBetter ==
    \A i, j \in 1..Len(history) :
        (/\ history[i].strategy = "delta_neutral_strategy"
         /\ history[j].strategy = "no_hedge_strategy"
         /\ history[i].price_data = history[j].price_data)
        => \/ Abs(history[i].result.final_pnl) < FlatTolerance
           \/ history[i].result.final_pnl > history[j].result.final_pnl

\* C27 witness: both strategies were run on a series whose price moves, the
\* delta-neutral one after a run that left the engine with a position.
C27_Witness ==
    \E h, i, j \in 1..Len(history) :
        /\ h < i
        /\ history[h].strategy = "hold_one_strategy"
        /\ history[i].strategy = "delta_neutral_strategy"
        /\ history[j].strategy = "no_hedge_strategy"
        /\ NonDegenerate(history[i].price_data)

\* ------------------------------------------- claims on the execution records
\* the statuses a hedge / execution record may carry
RecordStatuses == {"pending", "success", "mocked", "partial"}

\* C25: every record execute_perpetual_hedge and execute_option_hedge hand to
\* log_hedge_execution, in mock and in non-mock mode, carries a status in
\* {pending, success, mocked, partial}.
C25_RecordStatusInSet ==
    \A n \in 1..Len(csv_log) : csv_log[n].status \in RecordStatuses

\* --------------------------------------------- claims on the risk metrics
\* the arguments of the call are outside the domain of the formula
OutsideDomain ==
    \/ args.S <= 0
    \/ args.K <= 0
    \/ args.T <= 0
    \/ args.sigma <= 0
    \/ call \in TypedFunctions /\ args.option_type \notin {"call", "put"}

\* the one-to-one maps of 1..n onto itself
Perms(n) == {f \in [1..n -> 1..n] : \A i, j \in 1..n : f[i] = f[j] => i = j}
\* the list in the order f
Reordered(positions, f) == [i \in 1..Len(positions) |-> positions[f[i]]]
\* the totals of an asset in the dict compute_portfolio_exposure returns, 0
\* for an asset the dict has no key for
ExposureOf(exposure, asset) ==
    IF asset \in DOMAIN exposure THEN exposure[asset] ELSE ZeroGreeks

\* C21: for every reordering of the positions and every cut of the reordered
\* list into sublists P1 and P2, each of delta, gamma, vega and theta that
\* aggregate_portfolio_risks returned for the whole list (and
\* compute_portfolio_exposure returned per asset) equals the sum of the
\* totals of P1 and of P2.
C21_GreekFoldIsLinear ==
    (call \in {"aggregate_portfolio_risks", "compute_portfolio_exposure"}
     /\ pc = "returned") =>
        LET n == Len(args.positions)
        IN  \A f \in Perms(n), c \in 0..n :
                LET reordered == Reordered(args.positions, f)
                    P1 == SubSeq(reordered, 1, c)
                    P2 == SubSeq(reordered, c + 1, n)
                IN  IF call = "aggregate_portfolio_risks"
                    THEN result.value = AddGreeks(aggregate_portfolio_risks(P1),
                                                  aggregate_portfolio_risks(P2))
                    ELSE \A a \in Assets :
                            ExposureOf(result.value, a) =
                                AddGreeks(ExposureOf(compute_portfolio_exposure(P1), a),
                                          ExposureOf(compute_portfolio_exposure(P2), a))

\* the quantity of a position: the callers' dicts carry it under 'size'
Quantity(pos) == Get(pos, "size", Get(pos, "position_size", 1))

\* C22: for a list of one spot or perpetual position, the callers' dicts
\* included, aggregate_portfolio_risks returns a delta equal to the position's
\* signed size and zero gamma, vega and theta.
C22_SpotDeltaIsSize ==
    (call = "aggregate_portfolio_risks" /\ pc = "returned"
     /\ Len(args.positions) = 1 /\ args.positions[1].type # "option") =>
        result.value = [delta |-> Quantity(args.positions[1]),
                        gamma |-> 0, vega |-> 0, theta |-> 0]

\* C23: black_scholes_price, calculate_delta, calculate_gamma, calculate_vega
\* and calculate_theta end with an error, and return no number, whenever
\* S <= 0, K <= 0, T <= 0 or sigma <= 0, or option_type is neither 'call' nor
\* 'put'.
C23_DomainErrors ==
    (call \in BlackScholesFunctions /\ pc # call /\ OutsideDomain) => pc = "raised"

\* ------------------------------------------------ claims on the network calls
\* the call is over
CallOver == pc \in {"returned", "raised"}
\* the last request the call sent failed
LastFailed == Len(attempts) > 0 /\ attempts[Len(attempts)] \in Failures

\* C24: every network call sends at most 3 requests; a call that ended after a
\* request that succeeded has waited 1 second after each request before it;
\* a call ends after a failed request only if that was the third, and then it
\* surfaces the failure to its caller.
C24_ThreeAttemptsThenFailure ==
    /\ Len(attempts) <= RetryLimit
    /\ (CallOver /\ Len(attempts) > 0) =>
          IF LastFailed
          THEN /\ Len(attempts) = RetryLimit
               /\ waited >= (RetryLimit - 1) * RetryDelay
               /\ pc = "raised"
          ELSE waited = (Len(attempts) - 1) * RetryDelay

\* ------------------------------------------ claims on the monitoring sessions
\* the step is a segment of a handler: the first one, which takes the update,
\* or the one after monitor_risk's reply
HandlerStep == updates_left' # updates_left \/ pc = "reply"

\* C26: a step of a handler run for one chat changes neither the monitoring
\* flag nor the symbol / position-size / threshold context of another chat,
\* no step of a loop changes a flag or a context, every loop keeps its chat,
\* symbol and position size, and an alert sent to a chat comes from a loop of
\* that chat and carries that loop's symbol and that chat's threshold.
C26_SessionsIndependent ==
    [][/\ \A b \in Chats :
             (\/ monitoring_tasks'[b] # monitoring_tasks[b]
              \/ user_monitor_context'[b] # user_monitor_context[b])
             => (HandlerStep /\ args'.chat = b)
       /\ \A i \in DOMAIN loops :
             /\ loops'[i].chat = loops[i].chat
             /\ loops'[i].symbol = loops[i].symbol
             /\ loops'[i].position_size = loops[i].position_size
       /\ \A b \in Chats :
             alerts'[b] # alerts[b] =>
                \E i \in DOMAIN loops :
                    /\ loops[i].chat = b
                    /\ loops[i].pc = "authenticate" /\ loops'[i].pc = "sleep"
                    /\ Len(alerts'[b]) = Len(alerts[b]) + 1
                    /\ alerts'[b][Len(alerts'[b])].symbol = loops[i].symbol
                    /\ alerts'[b][Len(alerts'[b])].risk_threshold =
                          user_monitor_context[b].risk_threshold]_vars

\* C26 witness: two chats monitor different symbols with different
\* thresholds, a stop was just handled for the first, and the second, still
\* monitoring, has been sent an alert.
C26_Witness ==
    /\ call = "stop_risk_monitoring" /\ args.chat = 101
    /\ monitoring_tasks[101] = "False"
    /\ monitoring_tasks[202] = "True"
    /\ DOMAIN user_monitor_context[101] # {} /\ DOMAIN user_monitor_context[202] # {}
    /\ user_monitor_context[101].symbol # user_monitor_context[202].symbol
    /\ user_monitor_context[101].risk_threshold # user_monitor_context[202].risk_threshold
    /\ Len(alerts[202]) > 0
    /\ \E i \in Running : loops[i].chat = 202

\* C28: for each chat at most one monitor loop is running at any time.
C28_OneLoopPerChat ==
    \A c \in Chats : Cardinality({i \in Running : loops[i].chat = c}) <= 1

\* C29: while a chat's monitoring flag is False (a stop was processed) and no
\* later /monitor_risk is being handled for the chat, no step sends the chat
\* a risk alert.
C29_NoAlertAfterStop ==
    [][\A c \in Chats :
          (/\ monitoring_tasks[c] = "False"
           /\ ~(call = "monitor_risk" /\ pc = "reply" /\ args.chat = c))
          => alerts'[c] = alerts[c]]_vars
====
